---- MODULE Spec2Model ----
(***************************************************************************)
(* A model of langgraph's PostgresStore                                    *)
(* (libs/checkpoint-postgres/langgraph/store/postgres/base.py):            *)
(*   - batch(): grouping of the operations, the four phases                *)
(*     (Get, Search, ListNamespaces, Put), the compiled statements and the *)
(*     scatter of the rows into the result list;                           *)
(*   - setup(): the migration runner over MIGRATIONS and the ledger table  *)
(*     store_migrations.                                                   *)
(* The database is modelled by its tables (store, store_vectors,           *)
(* store_migrations), by the set of migrations whose DDL has taken effect  *)
(* and by what the backend does with a statement (an environment input).   *)
(* Text is a sequence of one-character strings, so that joining, splitting *)
(* and LIKE act on characters as they do in the program.                   *)
(***************************************************************************)
EXTENDS Integers, Sequences, FiniteSets, TLC

VARIABLES
    \* ---- the database ----
    store,             \* table store: set of rows [prefix, key, value]
    store_vectors,     \* table store_vectors: set of rows [prefix, key, field_name]
    ledger_table,      \* whether table store_migrations exists
    store_migrations,  \* table store_migrations: the set of recorded versions v
    schema,            \* versions of MIGRATIONS whose statement has taken effect
    vector_available,  \* pg_available_extensions lists 'vector'
    rejects,           \* statements the backend currently fails
    \* ---- the PostgresStore object ----
    embedding_config,  \* self.embedding_config: <<>> (None) or <<config>>
    lock,              \* self.lock: "free" or the holder
    \* ---- one batch() call ----
    pc,                \* "idle" | a phase (an Op type) | "returned" | "raised"
    ops,               \* the submitted operations
    results,           \* the result list
    executed,          \* history: the statements this call has executed, in order
    store0,            \* history: table store when the call entered its cursor
    tomb,              \* history: (namespace, key) whose last Put was a null Put
    tomb0,             \* history: tomb when the call entered its cursor
    embed_calls,       \* history: the calls of embed_documents this call has made
    error,             \* the exception the call raised, "" without one
    \* ---- one setup() call ----
    spc,               \* "idle" | "loop" | "returned" | "raised"
    version,           \* the version read from the ledger
    mv,                \* the loop variable v
    events,            \* history: what this call did with each migration
    skipped,           \* history: versions an earlier setup() skipped on
                       \* their condition
    quiet,             \* history: "first" in a setup(), "after" once it has
                       \* returned, "rerun" in the setup() that follows it;
                       \* "none" as soon as the database changes what it does
                       \* or the store is constructed anew
    \* ---- callers sharing one store ----
    pipe,              \* self.pipe: the store was constructed with a Pipeline
    cursor,            \* where each caller is in _cursor(pipeline=True)
    wire,              \* history: the callers whose statements the connection
                       \* has executed, in order, since the oldest call still
                       \* in its cursor section; "over" for the calls that, by
                       \* now, are over
    \* ---- a function applied to an argument ----
    input,             \* the argument, <<>> before there is one
    output             \* the value returned, <<>> before the call

dbVars    == <<store, store_vectors>>
envVars   == <<vector_available, rejects>>
ledgerVars == <<ledger_table, store_migrations, schema>>
batchVars == <<pc, ops, results, executed, store0, tomb, tomb0, lock,
               embed_calls, error>>
setupVars == <<spc, version, mv, events, skipped, quiet>>
callerVars == <<pipe, cursor, wire>>
callVars  == <<input, output>>
vars == <<store, store_vectors, ledger_table, store_migrations, schema,
          vector_available, rejects, embedding_config, lock,
          pc, ops, results, executed, store0, tomb, tomb0, embed_calls, error,
          spc, version, mv, events, skipped, quiet,
          pipe, cursor, wire, input, output>>

-----------------------------------------------------------------------------
(* Bounds of the model *)

\* the longest batch submitted
MaxOps == 2
\* the most statements the backend fails at one time
MaxRejects == 1
\* the longest namespace and the longest segment given to the codec
MaxSegs == 2
MaxSegLen == 2

-----------------------------------------------------------------------------
(* Values *)

\* Python's None, where a string or an integer may stand
None == "None"
\* self.embedding_config = None
NoConfig == <<>>

\* namespace segments, as text
SegA == <<"a">>
SegB == <<"b">>
\* the (namespace, key) that Gets and Puts address
Cells == { <<<<SegA>>, "k1">>, <<<<SegA>>, "k2">>, <<<<SegA, SegB>>, "k1">> }
\* the stored documents, by name
Values == {"v1", "v2"}

\* the elements of a sequence
Range(s) == { s[i] : i \in DOMAIN s }

\* the first occurrences of s, in order (the keys of a dict filled in this order)
AppendNew(d, x) == IF x \in Range(d) THEN d ELSE Append(d, x)
RECURSIVE Distinct(_)
Distinct(s) ==
    IF s = <<>> THEN <<>>
    ELSE AppendNew(Distinct(SubSeq(s, 1, Len(s) - 1)), s[Len(s)])

\* the characters of the texts that get compared, in the order of their codes
Chars == <<"%", "*", ".", "0", "1", "2", "3", "4", "5", "6", "7", "8", "9",
           "a", "b", "c", "x", "y", "z">>
CharRank(c) == CHOOSE i \in DOMAIN Chars : Chars[i] = c

\* a < b for two texts, as the database compares text: character by
\* character, a proper prefix before the longer text
RECURSIVE TextLess(_, _)
TextLess(a, b) ==
    IF b = <<>> THEN FALSE
    ELSE IF a = <<>> THEN TRUE
    ELSE IF Head(a) = Head(b) THEN TextLess(Tail(a), Tail(b))
    ELSE CharRank(Head(a)) < CharRank(Head(b))

\* str(n) of a natural number n: its decimal digits
RECURSIVE str(_)
str(n) ==
    IF n < 10 THEN <<Chars[n + 4]>>
    ELSE str(n \div 10) \o <<Chars[(n % 10) + 4]>>

-----------------------------------------------------------------------------
(* Namespace codec *)

\* ".".join(parts)
RECURSIVE JoinDot(_)
JoinDot(parts) ==
    IF parts = <<>> THEN <<>>
    ELSE IF Len(parts) = 1 THEN parts[1]
    ELSE parts[1] \o <<".">> \o JoinDot(Tail(parts))

_namespace_to_text(namespace, handle_wildcards) ==
    LET ns == IF handle_wildcards
              THEN [i \in DOMAIN namespace |->
                        IF namespace[i] = <<"*">> THEN <<"%">> ELSE namespace[i]]
              ELSE namespace
    IN JoinDot(ns)

\* text.split("."): always at least one part
RECURSIVE SplitDot(_)
SplitDot(text) ==
    IF \A i \in DOMAIN text : text[i] # "."
    THEN <<text>>
    ELSE LET i == CHOOSE j \in DOMAIN text :
                      text[j] = "." /\ \A k \in 1..(j - 1) : text[k] # "."
         IN <<SubSeq(text, 1, i - 1)>> \o SplitDot(SubSeq(text, i + 1, Len(text)))

\* the bytes branch taken for text: the first character is dropped
_decode_ns_bytes_as_bytes(namespace) ==
    SplitDot(SubSeq(namespace, 2, Len(namespace)))

\* the str branch: rows carry text
_decode_ns_bytes(namespace) == SplitDot(namespace)

\* text LIKE pattern, '%' standing for any run of characters
RECURSIVE Like(_, _)
Like(text, pattern) ==
    IF pattern = <<>> THEN text = <<>>
    ELSE IF Head(pattern) = "%"
         THEN \E n \in 0..Len(text) :
                  Like(SubSeq(text, n + 1, Len(text)), Tail(pattern))
         ELSE /\ text # <<>>
              /\ Head(text) = Head(pattern)
              /\ Like(Tail(text), Tail(pattern))

-----------------------------------------------------------------------------
(* Operations and results *)

GetOp(namespace, key) ==
    [type |-> "GetOp", namespace |-> namespace, key |-> key]
PutOp(namespace, key, value) ==
    [type |-> "PutOp", namespace |-> namespace, key |-> key, value |-> value]
\* filter: the (key, operator, operand) entries of the filter dict, in order,
\* the operator being "" for a plain operand ({key: value});
\* query: None, "" or a text; limit exceeds the number of rows, offset is 0
SearchOp(namespace_prefix, filter, query) ==
    [type |-> "SearchOp", namespace_prefix |-> namespace_prefix,
     filter |-> filter, query |-> query]
ListNamespacesOp(match_conditions, max_depth) ==
    [type |-> "ListNamespacesOp", match_conditions |-> match_conditions,
     max_depth |-> max_depth]

\* the groups with the Puts run first
OpTypesPutFirst == <<"PutOp", "GetOp", "SearchOp", "ListNamespacesOp">>

\* the order in which batch() runs the groups
OpTypes == <<"GetOp", "SearchOp", "ListNamespacesOp", "PutOp">>

\* the operations a caller submits
Ops ==
    { GetOp(c[1], c[2]) : c \in Cells }
    \cup { PutOp(c[1], c[2], v) : c \in Cells, v \in Values \cup {None} }
    \cup { SearchOp(ns, <<>>, None) : ns \in {<<SegA>>} }
    \cup { ListNamespacesOp(<<>>, d) : d \in {<<>>, <<1>>} }

Batches == UNION { [1..n -> Ops] : n \in 0..MaxOps }

\* results[i] of a Put, of a Get that found no row
NoneResult == [kind |-> "None"]
ListResult(of, items) == [kind |-> "list", of |-> of, items |-> items]

\* Item or SearchItem; created_at and updated_at are left out
_row_to_item(namespace, row, cls) ==
    IF cls = "SearchItem" /\ "score" \in DOMAIN row
    THEN [kind |-> cls, namespace |-> namespace, key |-> row.key,
          value |-> row.value, score |-> row.score]
    ELSE [kind |-> cls, namespace |-> namespace, key |-> row.key,
          value |-> row.value]

\* the indices i with os[i] of type t, ascending
IndicesOf(os, t) ==
    SelectSeq([i \in 1..Len(os) |-> i], LAMBDA i : os[i].type = t)

\* _group_ops with idx counting within the group instead of over the batch
_group_ops_idx_in_group(os) ==
    [grouped |-> [t \in Range(OpTypes) |->
                     LET ix == IndicesOf(os, t)
                     IN [j \in 1..Len(ix) |-> <<j, os[ix[j]]>>]],
     tot |-> Len(os)]

\* grouped_ops[type] = [(idx, op), ...] in submission order, and the count
_group_ops(os) ==
    [grouped |-> [t \in Range(OpTypes) |->
                     LET ix == IndicesOf(os, t)
                     IN [j \in 1..Len(ix) |-> <<ix[j], os[ix[j]]>>]],
     tot |-> Len(os)]

-----------------------------------------------------------------------------
(* Batch query compiler *)

\* one SELECT for each Get
GetQueriesPerOp(get_ops) ==
    [j \in DOMAIN get_ops |->
        [stmt |-> "select",
         prefix |-> _namespace_to_text(get_ops[j][2].namespace, FALSE),
         keys |-> <<get_ops[j][2].key>>,
         namespace |-> get_ops[j][2].namespace,
         items |-> <<<<get_ops[j][1], get_ops[j][2].key>>>>]]

\* one SELECT per namespace, with the (idx, key) pairs it serves
_get_batch_GET_ops_queries(get_ops) ==
    LET namespaces == Distinct([j \in DOMAIN get_ops |-> get_ops[j][2].namespace])
    IN [n \in DOMAIN namespaces |->
           LET mine == SelectSeq(get_ops,
                                 LAMBDA e : e[2].namespace = namespaces[n])
               items == [j \in DOMAIN mine |-> <<mine[j][1], mine[j][2].key>>]
           IN [stmt |-> "select",
               prefix |-> _namespace_to_text(namespaces[n], FALSE),
               keys |-> [j \in DOMAIN items |-> items[j][2]],
               namespace |-> namespaces[n],
               items |-> items]]

\* the documents whose one field, score, is a number
NumericValues == {"n5", "n9", "n10"}
Score(value) == CASE value = "n5" -> 5 [] value = "n9" -> 9 [] OTHER -> 10

\* the stored documents: flat JSON objects
Document(value) ==
    IF value \in NumericValues THEN [score |-> Score(value)]
    ELSE IF value = "v1" THEN [data |-> "x"]
    ELSE IF value = "v12" THEN [data |-> "x", text |-> "y"]
    ELSE IF value = "v0" THEN [other |-> "z"]
    ELSE [text |-> "y"]

\* value->>key: the field as text, <<>> (NULL) without the field
FieldText(value, key) ==
    LET doc == Document(value)
    IN IF key \notin DOMAIN doc THEN <<>>
       ELSE IF value \in NumericValues THEN <<str(doc[key])>>
       ELSE <<<<doc[key]>>>>

\* JSON values as trees: a number, a string, null, a list of trees, or a dict,
\* the sequence of its <<key, tree>> pairs in insertion order
Number(n) == [t |-> "int", v |-> n]
Str(s) == [t |-> "str", v |-> s]
Null == [t |-> "null", v |-> 0]
List(items) == [t |-> "list", v |-> items]
Dict(pairs) == [t |-> "dict", v |-> pairs]

\* the characters of a field name of the stored documents
FieldPath(field) ==
    CASE field = "data" -> <<"d", "a", "t", "a">>
      [] field = "text" -> <<"t", "e", "x", "t">>
      [] field = "other" -> <<"o", "t", "h", "e", "r">>
      [] field = "score" -> <<"s", "c", "o", "r", "e">>
      [] OTHER -> <<"_", "_", "r", "o", "o", "t", "_", "_">>

\* the fields of the stored documents, in the order the documents list them
DocumentFields == <<"data", "text", "other", "score">>

\* the fields a stored document has, and the value of one of them
PresentFields(value) ==
    SelectSeq(DocumentFields, LAMBDA f : f \in DOMAIN Document(value))
Leaf(value, field) ==
    IF value \in NumericValues THEN Number(Document(value)[field])
    ELSE Str(Document(value)[field])

\* the stored document as a tree
Tree(value) ==
    Dict([j \in DOMAIN PresentFields(value) |->
            <<FieldPath(PresentFields(value)[j]),
              Leaf(value, PresentFields(value)[j])>>])

\* tokens.append("".join(current)) if current
AppendAlways(tokens, current) == Append(tokens, current)
Flush(tokens, current) ==
    IF current = <<>> THEN tokens ELSE Append(tokens, current)

\* the tokenizer before the first character of a path
TokenizeStart ==
    [i |-> 1, tokens |-> <<>>, current |-> <<>>, open |-> "", count |-> 0,
     index_chars |-> <<>>]

\* the closing character of a group opened by "[" or "{"
Closer(open) == IF open = "[" THEN "]" ELSE "}"

\* one round of the inner loop over a group: the character is kept, and only
\* the group's own opening and closing characters are counted
GroupStep(st, char) ==
    [st EXCEPT !.i = st.i + 1,
               !.index_chars = Append(st.index_chars, char),
               !.count = IF char = st.open THEN st.count + 1
                         ELSE IF char = Closer(st.open) THEN st.count - 1
                         ELSE st.count]

\* one round of the outer loop at character char
CharStep(st, char) ==
    IF char \in {"[", "{"}
    THEN [st EXCEPT !.i = st.i + 1,
                    !.tokens = Flush(st.tokens, st.current),
                    !.current = <<>>,
                    !.open = char,
                    !.count = 1,
                    !.index_chars = <<char>>]
    ELSE IF char = "."
    THEN [st EXCEPT !.i = st.i + 1,
                    !.tokens = Flush(st.tokens, st.current),
                    !.current = <<>>]
    ELSE [st EXCEPT !.i = st.i + 1, !.current = Append(st.current, char)]

\* the tokenizer has consumed the path and is outside every group
TokenizeAtEnd(path, st) == st.open = "" /\ st.i > Len(path)

\* one step of the tokenizer on path: inside a group the inner loop runs
\* while characters are left and the group is open, and then the group is
\* one token
TokenizeStep(path, st) ==
    IF st.open = "" THEN CharStep(st, path[st.i])
    ELSE IF st.i <= Len(path) /\ st.count > 0 THEN GroupStep(st, path[st.i])
    ELSE [st EXCEPT !.tokens = Append(st.tokens, st.index_chars),
                    !.open = "",
                    !.index_chars = <<>>]

\* the tokens returned after the last character
TokenizeResult(st) == Flush(st.tokens, st.current)

RECURSIVE TokenizeRun(_, _)
TokenizeRun(path, st) ==
    IF TokenizeAtEnd(path, st) THEN TokenizeResult(st)
    ELSE TokenizeRun(path, TokenizeStep(path, st))

\* the tokens of a path: field names, "[...]" and "{...}" groups
_tokenize_path(path) ==
    IF path = <<>> THEN <<>> ELSE TokenizeRun(path, TokenizeStart)

\* text.split(sep)
RECURSIVE Split(_, _)
Split(text, sep) ==
    IF \A i \in DOMAIN text : text[i] # sep THEN <<text>>
    ELSE <<SubSeq(text, 1, (CHOOSE i \in DOMAIN text :
                              /\ text[i] = sep
                              /\ \A j \in 1..(i - 1) : text[j] # sep) - 1)>>
         \o Split(SubSeq(text, (CHOOSE i \in DOMAIN text :
                                  /\ text[i] = sep
                                  /\ \A j \in 1..(i - 1) : text[j] # sep) + 1,
                         Len(text)), sep)

\* text.strip()
RECURSIVE strip(_)
strip(text) ==
    IF text = <<>> THEN text
    ELSE IF Head(text) = " " THEN strip(Tail(text))
    ELSE IF text[Len(text)] = " " THEN strip(SubSeq(text, 1, Len(text) - 1))
    ELSE text

\* the value of a run of decimal digits
Digits == <<"0", "1", "2", "3", "4", "5", "6", "7", "8", "9">>
RECURSIVE DigitsValue(_)
DigitsValue(text) ==
    IF text = <<>> THEN 0
    ELSE 10 * DigitsValue(SubSeq(text, 1, Len(text) - 1))
         + (CHOOSE d \in 0..9 : Digits[d + 1] = text[Len(text)])

\* int(text) of stripped text: <<n>>, or <<>> for the ValueError of a text
\* that is not an optional sign and one or more digits
IntOfStripped(text) ==
    IF text # <<>> /\ Head(text) = "-"
    THEN IF Len(text) > 1 /\ \A i \in 2..Len(text) : text[i] \in Range(Digits)
         THEN <<0 - DigitsValue(Tail(text))>> ELSE <<>>
    ELSE IF text # <<>> /\ \A i \in DOMAIN text : text[i] \in Range(Digits)
         THEN <<DigitsValue(text)>> ELSE <<>>
int(text) == IntOfStripped(strip(text))

\* the outcome of an extraction: the fragments, or an exception that leaves
\* the function
Returns(texts) == [raises |-> FALSE, texts |-> texts]
Raises == [raises |-> TRUE, texts |-> <<>>]

\* results.extend(more), unless one of the two raised
Extend(found, more) ==
    IF found.raises THEN found
    ELSE IF more.raises THEN more
    ELSE Returns(found.texts \o more.texts)

\* json.dumps(obj, sort_keys=True)
json_dumps(obj) == [json |-> obj]

\* the fragment of the value at the end of a path: str() of a scalar,
\* nothing for null, the serialisation of a list or a dict
Terminal(obj) ==
    IF obj.t = "str" THEN <<obj.v>>
    ELSE IF obj.t = "int" THEN <<str(obj.v)>>
    ELSE IF obj.t = "null" THEN <<>>
    ELSE <<json_dumps(obj)>>

\* the values of dict obj under a key: <<>> (KeyError) without the key
Lookup(obj, key) ==
    IF \E j \in DOMAIN obj.v : obj.v[j][1] = key
    THEN <<obj.v[CHOOSE j \in DOMAIN obj.v : obj.v[j][1] = key][2]>>
    ELSE <<>>

\* isinstance(obj, dict) and token in obj
HasField(obj, token) == obj.t = "dict" /\ Lookup(obj, token) # <<>>

\* obj[token]: what a subscript gives on any value
Subscript(obj, token) == IF obj.t = "dict" THEN Lookup(obj, token) ELSE <<>>

\* idx = len(obj) + idx if idx < 0
Normalised(idx, len) == IF idx < 0 THEN len + idx ELSE idx

\* 0 <= idx < len(obj); a Python list also takes the indices -len .. -1
InRangePython(idx, len) == 0 - len <= idx /\ idx < len
InRange(idx, len) == 0 <= idx /\ idx < len

\* obj[idx] of a Python list: <<>> (IndexError) out of range
Item(items, idx) ==
    IF 0 <= idx /\ idx < Len(items) THEN <<items[idx + 1]>>
    ELSE IF 0 - Len(items) <= idx /\ idx < 0 THEN <<items[Len(items) + idx + 1]>>
    ELSE <<>>

\* the values of a dict, in order
DictValues(obj) == [j \in DOMAIN obj.v |-> obj.v[j][2]]

\* one field of a "{...}" group: the field's tokens are followed through
\* nested dicts, up to the first token that is not a key
RECURSIVE Follow(_, _, _)
Follow(current_obj, nested_tokens, n) ==
    IF n > Len(nested_tokens) \/ current_obj = <<>> THEN current_obj
    ELSE Follow(IF current_obj[1].t = "dict"
                THEN Lookup(current_obj[1], nested_tokens[n]) ELSE <<>>,
                nested_tokens, n + 1)

\* the fragment of a followed field: nothing for a missing value or null
FieldFragment(current_obj) ==
    IF current_obj = <<>> THEN <<>> ELSE Terminal(current_obj[1])

\* if nested_tokens: a field without tokens gives nothing
FieldFragments(obj, nested_tokens) ==
    IF nested_tokens = <<>> THEN <<>>
    ELSE FieldFragment(Follow(<<obj>>, nested_tokens, 1))

RECURSIVE FieldsFragments(_, _, _)
FieldsFragments(obj, fields, n) ==
    IF n = 0 THEN <<>>
    ELSE FieldsFragments(obj, fields, n - 1)
         \o FieldFragments(obj, _tokenize_path(strip(fields[n])))

RECURSIVE _extract_from_obj(_, _, _)
RECURSIVE ExtendEach(_, _, _, _)

\* for item in items: results.extend(_extract_from_obj(item, tokens, pos))
ExtendEach(items, tokens, pos, n) ==
    IF n = 0 THEN Returns(<<>>)
    ELSE Extend(ExtendEach(items, tokens, pos, n - 1),
                _extract_from_obj(items[n], tokens, pos))

\* obj[idx] and the rest of the path; an IndexError is caught and gives
\* nothing
AtItem(item, tokens, pos) ==
    IF item = <<>> THEN Returns(<<>>)
    ELSE _extract_from_obj(item[1], tokens, pos)

\* a "[...]" token on a list: "*" takes every element, an integer takes the
\* element at the normalised index if it is in range, anything else nothing
AtIndex(obj, tokens, pos, idx) ==
    IF idx = <<>> THEN Returns(<<>>)
    ELSE IF InRange(Normalised(idx[1], Len(obj.v)), Len(obj.v))
    THEN AtItem(Item(obj.v, Normalised(idx[1], Len(obj.v))), tokens, pos)
    ELSE Returns(<<>>)

\* obj[token] and the rest of the path; a KeyError or TypeError leaves the
\* function
AtField(value, tokens, pos) ==
    IF value = <<>> THEN Raises
    ELSE _extract_from_obj(value[1], tokens, pos)

_extract_from_obj(obj, tokens, pos) ==
    IF pos > Len(tokens) THEN Returns(Terminal(obj))
    ELSE IF Head(tokens[pos]) = "[" /\ tokens[pos][Len(tokens[pos])] = "]"
    THEN IF obj.t # "list" THEN Returns(<<>>)
         ELSE IF SubSeq(tokens[pos], 2, Len(tokens[pos]) - 1) = <<"*">>
         THEN ExtendEach(obj.v, tokens, pos + 1, Len(obj.v))
         ELSE AtIndex(obj, tokens, pos + 1,
                      int(SubSeq(tokens[pos], 2, Len(tokens[pos]) - 1)))
    ELSE IF Head(tokens[pos]) = "{" /\ tokens[pos][Len(tokens[pos])] = "}"
    THEN IF obj.t # "dict" THEN Returns(<<>>)
         ELSE Returns(FieldsFragments(
                  obj, Split(SubSeq(tokens[pos], 2, Len(tokens[pos]) - 1), ","),
                  Len(Split(SubSeq(tokens[pos], 2, Len(tokens[pos]) - 1), ","))))
    ELSE IF tokens[pos] = <<"*">>
    THEN IF obj.t = "dict"
         THEN ExtendEach(DictValues(obj), tokens, pos + 1, Len(obj.v))
         ELSE IF obj.t = "list"
         THEN ExtendEach(obj.v, tokens, pos + 1, Len(obj.v))
         ELSE Returns(<<>>)
    ELSE IF HasField(obj, tokens[pos])
    THEN AtField(Subscript(obj, tokens[pos]), tokens, pos + 1)
    ELSE Returns(<<>>)

\* the outcome of text extraction from obj under a path: the whole value,
\* serialised, for no path and for "__root__"
_extract_text_by_path(obj, path) ==
    IF path = <<>> \/ path = FieldPath("__root__")
    THEN Returns(<<json_dumps(obj)>>)
    ELSE _extract_from_obj(obj, _tokenize_path(path), 1)

\* the texts of a stored document under the path of a text field
ExtractedTexts(value, field) ==
    _extract_text_by_path(Tree(value), FieldPath(field)).texts

\* flattens a sequence of sequences
RECURSIVE Flatten(_)
Flatten(ss) == IF ss = <<>> THEN <<>> ELSE Head(ss) \o Flatten(Tail(ss))

\* dedupped_ops keeping the first Put of a key instead of the last
DeduppedOpsFirst(put_ops) ==
    LET cells == Distinct([j \in DOMAIN put_ops |->
                              <<put_ops[j][2].namespace, put_ops[j][2].key>>])
    IN [c \in DOMAIN cells |->
           LET first == CHOOSE j \in DOMAIN put_ops :
                   /\ <<put_ops[j][2].namespace, put_ops[j][2].key>> = cells[c]
                   /\ \A k \in DOMAIN put_ops :
                        <<put_ops[k][2].namespace, put_ops[k][2].key>> = cells[c]
                            => k >= j
           IN put_ops[first][2]]

\* dedupped_ops.values(): one Put per (namespace, key), the last one submitted,
\* in the order in which the keys first occur
DeduppedOps(put_ops) ==
    LET cells == Distinct([j \in DOMAIN put_ops |->
                              <<put_ops[j][2].namespace, put_ops[j][2].key>>])
    IN [c \in DOMAIN cells |->
           LET last == CHOOSE j \in DOMAIN put_ops :
                   /\ <<put_ops[j][2].namespace, put_ops[j][2].key>> = cells[c]
                   /\ \A k \in DOMAIN put_ops :
                        <<put_ops[k][2].namespace, put_ops[k][2].key>> = cells[c]
                            => k <= j
           IN put_ops[last][2]]

\* the DELETE statements naming only the first key of each namespace
DeleteQueriesFirstKey(deletes) ==
    LET namespaces == Distinct([j \in DOMAIN deletes |-> deletes[j].namespace])
    IN [n \in DOMAIN namespaces |->
           LET mine == SelectSeq(deletes, LAMBDA o : o.namespace = namespaces[n])
           IN [stmt |-> "delete",
               prefix |-> _namespace_to_text(namespaces[n], FALSE),
               keys |-> <<mine[1].key>>]]

\* the DELETE statements, one per namespace
DeleteQueries(deletes) ==
    LET namespaces == Distinct([j \in DOMAIN deletes |-> deletes[j].namespace])
    IN [n \in DOMAIN namespaces |->
           LET mine == SelectSeq(deletes, LAMBDA o : o.namespace = namespaces[n])
           IN [stmt |-> "delete",
               prefix |-> _namespace_to_text(namespaces[n], FALSE),
               keys |-> [j \in DOMAIN mine |-> mine[j].key]]]

\* the (ns, k, field, text) tuples to embed
EmbeddingRequestParams(inserts, config) ==
    LET text_fields == config.text_fields
    IN Flatten([j \in DOMAIN inserts |->
          Flatten([f \in DOMAIN text_fields |->
              LET texts == ExtractedTexts(inserts[j].value, text_fields[f])
              IN [t \in DOMAIN texts |->
                     [prefix |-> _namespace_to_text(inserts[j].namespace, FALSE),
                      key |-> inserts[j].key,
                      field_name |-> text_fields[f],
                      text |-> texts[t]]]])])

\* queries: the DELETEs, then one INSERT ... ON CONFLICT for all upserts;
\* embedding_request: <<>> (None) or the vector INSERT, which holds one
\* VALUES tuple per text, with the texts
_prepare_batch_PUT_queries(put_ops, config) ==
    LET dedupped == DeduppedOps(put_ops)
        inserts == SelectSeq(dedupped, LAMBDA o : o.value # None)
        deletes == SelectSeq(dedupped, LAMBDA o : o.value = None)
        upsert == [stmt |-> "upsert",
                   rows |-> [j \in DOMAIN inserts |->
                       [prefix |-> _namespace_to_text(inserts[j].namespace, FALSE),
                        key |-> inserts[j].key,
                        value |-> inserts[j].value]]]
        params == IF config # NoConfig /\ inserts # <<>>
                  THEN EmbeddingRequestParams(inserts, config[1])
                  ELSE <<>>
    IN [queries |-> DeleteQueries(deletes)
                    \o (IF inserts # <<>> THEN <<upsert>> ELSE <<>>),
        embedding_request |->
            IF params # <<>>
            THEN <<[tuples |-> Len(params), txt_params |-> params]>>
            ELSE <<>>]

\* the operators _get_filter_condition knows
FilterOperators == {"$eq", "$gt", "$gte", "$lt", "$lte", "$ne"}

\* the condition of one filter entry and its parameter: the operand as text
\* (str(value)) for the four comparisons, as JSON for $eq and $ne;
\* raises: ValueError("Unsupported operator")
_get_filter_condition(key, op, value) ==
    IF op \in {"$gt", "$gte", "$lt", "$lte"}
    THEN [raises |-> FALSE, op |-> op, key |-> key, param |-> str(value)]
    ELSE IF op \in {"$eq", "$ne"}
    THEN [raises |-> FALSE, op |-> op, key |-> key, param |-> value]
    ELSE [raises |-> TRUE, op |-> op, key |-> key, param |-> value]

\* the conditions of a Search's filter; a plain operand compiles as $eq does
FilterConditions(filter) ==
    [c \in DOMAIN filter |->
        IF filter[c].op = ""
        THEN [raises |-> FALSE, op |-> "$eq", key |-> filter[c].key,
              param |-> filter[c].val]
        ELSE _get_filter_condition(filter[c].key, filter[c].op, filter[c].val)]

\* needs_vector_search without the test of op.query
needs_vector_search_any_query(op, config) == config # NoConfig

\* if op.query and self.embedding_config: needs_vector_search = True
needs_vector_search(op, config) ==
    op.query \notin {None, ""} /\ config # NoConfig

\* one SELECT per Search; embedding_requests: the (position, query) pairs;
\* raises: a filter of one of the Searches has an unsupported operator
_prepare_batch_search_queries(search_ops, config) ==
    [queries |-> [j \in DOMAIN search_ops |->
           LET op == search_ops[j][2]
           IN [stmt |-> "search",
               vector |-> needs_vector_search(op, config),
               embedding |-> None,
               like |-> _namespace_to_text(op.namespace_prefix, FALSE) \o <<"%">>,
               conditions |-> FilterConditions(op.filter)]],
     embedding_requests |->
         LET ix == SelectSeq([j \in DOMAIN search_ops |-> j],
                    LAMBDA j : needs_vector_search(search_ops[j][2], config))
         IN [e \in DOMAIN ix |-> <<ix[e], search_ops[ix[e]][2].query>>],
     raises |-> \E j \in DOMAIN search_ops :
                   \E c \in DOMAIN search_ops[j][2].filter :
                       FilterConditions(search_ops[j][2].filter)[c].raises]

\* the LIKE pattern of a match condition, <<>> for an unknown match_type
ConditionPattern(condition) ==
    IF condition.match_type = "prefix"
    THEN <<_namespace_to_text(condition.path, TRUE) \o <<"%">>>>
    ELSE IF condition.match_type = "suffix"
    THEN <<<<"%">> \o _namespace_to_text(condition.path, TRUE)>>
    ELSE <<>>

\* one SELECT DISTINCT ON (truncated_prefix) per ListNamespaces
_get_batch_list_namespaces_queries(list_ops) ==
    [j \in DOMAIN list_ops |->
        LET op == list_ops[j][2]
        IN [stmt |-> "list",
            max_depth |-> op.max_depth,
            likes |-> Flatten([c \in DOMAIN op.match_conditions |->
                                  ConditionPattern(op.match_conditions[c])])]]

-----------------------------------------------------------------------------
(* The backend: what a statement does to the tables *)

Tables(st, sv) == [store |-> st, store_vectors |-> sv]

\* whether the backend refuses the statement outright:
\* a table it names does not exist, an INSERT names a row twice, or the
\* parameters passed are not as many as the statement's placeholders
Refused(db, sch, q) ==
    \/ 0 \notin sch
    \/ /\ q.stmt = "upsert"
       /\ \E i, j \in DOMAIN q.rows :
            i # j /\ q.rows[i].prefix = q.rows[j].prefix
                  /\ q.rows[i].key = q.rows[j].key
    \/ /\ q.stmt = "vec_upsert"
       /\ (3 \notin sch \/ 4 * q.tuples # Len(q.params))
    \/ /\ q.stmt = "search"
       /\ q.vector
       /\ 3 \notin sch

\* the tables after DELETE / INSERT ... ON CONFLICT DO UPDATE
\* (store_vectors rows follow their store row: ON DELETE CASCADE)
Apply(db, q) ==
    IF q.stmt = "delete"
    THEN LET hit(r) == r.prefix = q.prefix /\ r.key \in Range(q.keys)
         IN Tables({ r \in db.store : ~hit(r) },
                   { r \in db.store_vectors : ~hit(r) })
    ELSE IF q.stmt = "upsert"
    THEN LET hit(r) == \E i \in DOMAIN q.rows :
                          r.prefix = q.rows[i].prefix /\ r.key = q.rows[i].key
         IN Tables({ r \in db.store : ~hit(r) } \cup Range(q.rows),
                   db.store_vectors)
    ELSE IF q.stmt = "vec_upsert"
    THEN Tables(db.store,
                db.store_vectors \cup
                    { [prefix |-> q.params[1], key |-> q.params[2],
                       field_name |-> q.params[3]] })
    ELSE db

\* cur.execute over queries[from..]: the tables when the loop ends and the
\* number of statements executed; it ends early at a refused statement
RECURSIVE Execute(_, _, _, _)
Execute(db, sch, queries, from) ==
    IF from > Len(queries) THEN [db |-> db, done |-> Len(queries)]
    ELSE IF Refused(db, sch, queries[from]) THEN [db |-> db, done |-> from - 1]
    ELSE Execute(Apply(db, queries[from]), sch, queries, from + 1)

\* rows of SELECT key, value ... WHERE prefix = %s AND key IN (...)
SelectRows(db, q) ==
    { r \in db.store : r.prefix = q.prefix /\ r.key \in Range(q.keys) }

\* whether a row passes a filter condition: value->>key against the
\* parameter as text for the comparisons, value->key against it as JSON for
\* $eq and $ne; a row without the field passes none
Passes(row, c) ==
    LET text == FieldText(row.value, c.key)
    IN /\ text # <<>>
       /\ CASE c.op = "$gt" -> TextLess(c.param, text[1])
            [] c.op = "$gte" -> ~TextLess(text[1], c.param)
            [] c.op = "$lt" -> TextLess(text[1], c.param)
            [] c.op = "$lte" -> ~TextLess(c.param, text[1])
            [] c.op = "$ne" -> Document(row.value)[c.key] # c.param
            [] OTHER -> Document(row.value)[c.key] = c.param

\* 1 - (sv.embedding <=> query vector): the score of a vector row, named
\* after the field the row embeds
Similarity(w) ==
    CASE w.field_name = "data" -> "score(data)"
      [] w.field_name = "text" -> "score(text)"
      [] OTHER -> "score"

\* FROM store s JOIN store_vectors sv ON s.prefix = sv.prefix AND
\* s.key = sv.key: one row for each pair of a store row and one of its
\* vector rows
JoinVectors(hits, sv) ==
    { [prefix |-> p[1].prefix, key |-> p[1].key, value |-> p[1].value,
       score |-> Similarity(p[2])] :
        p \in { x \in hits \X sv : x[1].prefix = x[2].prefix
                                    /\ x[1].key = x[2].key } }

\* the store rows under the LIKE pattern that pass the filter conditions
Hits(db, q) ==
    { s \in db.store :
        /\ Like(s.prefix, q.like)
        /\ \A c \in DOMAIN q.conditions : Passes(s, q.conditions[c]) }

\* rows of the Search statement: store rows under the LIKE pattern that pass
\* the filter conditions, joined with their store_vectors rows (and scored)
\* for a vector search
SearchRows(db, q) ==
    IF q.vector THEN JoinVectors(Hits(db, q), db.store_vectors)
    ELSE Hits(db, q)

\* the first max_depth segments of prefix, joined again; prefix if max_depth
\* is unset (max_depth is <<>> for None, <<d>> for d)
Truncated(prefix, max_depth) ==
    IF max_depth = <<>> THEN prefix
    ELSE LET parts == SplitDot(prefix)
         IN JoinDot(SubSeq(parts, 1, IF max_depth[1] < Len(parts)
                                      THEN max_depth[1] ELSE Len(parts)))

\* SELECT truncated_prefix without DISTINCT ON: every row of the subquery
AllRows(rows, max_depth) == rows

\* SELECT DISTINCT ON (truncated_prefix): one row of the subquery for each
\* value of truncated_prefix
DistinctOn(rows, max_depth) ==
    { r \in rows :
        r = CHOOSE s \in rows : Truncated(s.prefix, max_depth)
                                    = Truncated(r.prefix, max_depth) }

\* ORDER BY truncated_prefix: the truncated_prefix of the rows, ascending
RECURSIVE OrderByTruncated(_, _)
OrderByTruncated(rows, max_depth) ==
    IF rows = {} THEN <<>>
    ELSE LET first == CHOOSE r \in rows : \A s \in rows :
                          ~TextLess(Truncated(s.prefix, max_depth),
                                    Truncated(r.prefix, max_depth))
         IN <<Truncated(first.prefix, max_depth)>>
                \o OrderByTruncated(rows \ {first}, max_depth)

\* the truncated_prefix column of the rows of the ListNamespaces statement,
\* in order (limit exceeds the number of rows, offset is 0)
ListRows(db, q) ==
    LET subquery == { s \in db.store :
                        \A c \in DOMAIN q.likes : Like(s.prefix, q.likes[c]) }
    IN OrderByTruncated(DistinctOn(subquery, q.max_depth), q.max_depth)

-----------------------------------------------------------------------------
(* batch() *)

Grouped == _group_ops(ops).grouped

\* the group batch() turns to after the group `after` ("" at the start), or
\* "returned" when no group is left
NextGroup(grouped, after) ==
    LET pos == IF after = "" THEN 0
               ELSE CHOOSE i \in DOMAIN OpTypes : OpTypes[i] = after
        left == { i \in DOMAIN OpTypes : i > pos /\ grouped[OpTypes[i]] # <<>> }
    IN IF left = {} THEN "returned"
       ELSE OpTypes[CHOOSE i \in left : \A j \in left : i <= j]

\* the history entries of n statements run for the group pc
Ran(n) == [i \in 1..n |-> [group |-> pc, pre |-> store = store0, ok |-> TRUE]]

\* the history entries of a loop over len statements of the group pc that
\* ran done of them: the next one, if there is one, failed
Attempts(done, len) ==
    Ran(done) \o (IF done < len
                  THEN <<[group |-> pc, pre |-> store = store0, ok |-> FALSE]>>
                  ELSE <<>>)

\* embed_documents called once for each text
EmbedCallsPerText(phase, texts) ==
    [i \in DOMAIN texts |-> [phase |-> phase, texts |-> <<texts[i]>>]]

\* embed_documents called in the Search phase only
EmbedCallsSearchOnly(phase, texts) ==
    IF texts = <<>> \/ phase # "SearchOp" THEN <<>>
    ELSE <<[phase |-> phase, texts |-> texts]>>

\* the calls of self.embedding_config["embed"].embed_documents a phase makes
\* for its pending texts: one with all of them, none without a text
EmbedCalls(phase, texts) ==
    IF texts = <<>> THEN <<>> ELSE <<[phase |-> phase, texts |-> texts]>>

\* res with res[idx] = vals[j] for every (idx, _) = pairs[j]; a later pair
\* overwrites an earlier one
Scatter(res, pairs, vals) ==
    [i \in DOMAIN res |->
        LET js == { j \in DOMAIN pairs : pairs[j][1] = i }
        IN IF js = {} THEN res[i]
           ELSE vals[CHOOSE j \in js : \A k \in js : k <= j]]

\* key_to_row.get(key) taking whatever row came back
KeyToRowAny(rows, key) ==
    IF rows = {} THEN <<>> ELSE <<CHOOSE r \in rows : TRUE>>

\* key_to_row.get(key): <<>> (None) or the row of that key
KeyToRow(rows, key) ==
    LET mine == { r \in rows : r.key = key }
    IN IF mine = {} THEN <<>> ELSE <<CHOOSE r \in mine : TRUE>>

\* results after the SELECTs queries[k..] have run and their rows are scattered
RECURSIVE GetLoop(_, _, _, _)
GetLoop(res, queries, db, k) ==
    IF k > Len(queries) THEN res
    ELSE LET q == queries[k]
             rows == SelectRows(db, q)
             vals == [j \in DOMAIN q.items |->
                        LET row == KeyToRow(rows, q.items[j][2])
                        IN IF row # <<>>
                           THEN _row_to_item(q.namespace, row[1], "Item")
                           ELSE NoneResult]
         IN GetLoop(Scatter(res, q.items, vals), queries, db, k + 1)

_batch_get_ops(get_ops, res, db) ==
    GetLoop(res, _get_batch_GET_ops_queries(get_ops), db, 1)

\* the vector embed_documents returns for a text
Embedding(text) ==
    CASE text = "q" -> "vector(q)" [] text = "r" -> "vector(r)" [] OTHER -> "vector()"

\* embed_documents(texts): one vector for each text, in the order of the texts
embed_documents(texts) == [e \in DOMAIN texts |-> Embedding(texts[e])]

\* the statement whose vector slot the e-th embedding request names; the
\* e-th statement
SlotByRank(request, e) == e
Slot(request, e) == request[1]

\* for (idx, _), embedding in zip(embedding_requests, embeddings):
\*     queries[idx][1][0] = embedding
RECURSIVE Filled(_, _, _, _)
Filled(queries, embedding_requests, embeddings, n) ==
    IF n = 0 THEN queries
    ELSE [Filled(queries, embedding_requests, embeddings, n - 1)
            EXCEPT ![Slot(embedding_requests[n], n)].embedding = embeddings[n]]

\* the Search statements as executed: those of prep (what
\* _prepare_batch_search_queries returned) with the query embeddings filled in
FilledQueries(prep, config) ==
    IF prep.embedding_requests # <<>> /\ config # NoConfig
    THEN Filled(prep.queries, prep.embedding_requests,
                embed_documents([e \in DOMAIN prep.embedding_requests |->
                                    prep.embedding_requests[e][2]]),
                Len(prep.embedding_requests))
    ELSE prep.queries

SearchQueries(search_ops, config) ==
    FilledQueries(_prepare_batch_search_queries(search_ops, config), config)

\* the SearchItems of the rows of each of the statements
SearchItems(queries, db) ==
    [j \in DOMAIN queries |->
        ListResult("SearchItem",
            { _row_to_item(_decode_ns_bytes(row.prefix), row, "SearchItem") :
                row \in SearchRows(db, queries[j]) })]

_batch_search_ops(search_ops, res, db, config) ==
    Scatter(res, search_ops, SearchItems(SearchQueries(search_ops, config), db))

\* the namespaces of the rows of each of the statements
ListedNamespaces(queries, db) ==
    [j \in DOMAIN queries |->
        ListResult("namespace", [k \in DOMAIN ListRows(db, queries[j]) |->
                                    _decode_ns_bytes(ListRows(db, queries[j])[k])])]

_batch_list_namespaces_ops(list_ops, res, db) ==
    Scatter(res, list_ops,
            ListedNamespaces(_get_batch_list_namespaces_queries(list_ops), db))

\* the vector INSERT of the embedding request er, once per embedded text,
\* each time with that one text's parameters
VectorInserts(er) ==
    IF er = <<>> THEN <<>>
    ELSE [j \in DOMAIN er[1].txt_params |->
             [stmt |-> "vec_upsert",
              tuples |-> er[1].tuples,
              params |-> <<er[1].txt_params[j].prefix,
                           er[1].txt_params[j].key,
                           er[1].txt_params[j].field_name,
                           "vector">>]]

\* the texts of the embedding request er: [param[-1] for param in txt_params]
RequestTexts(er) ==
    IF er = <<>> THEN <<>>
    ELSE [j \in DOMAIN er[1].txt_params |-> er[1].txt_params[j].text]

\* the statements _batch_put_ops executes: the prepared ones, then the vector
\* INSERTs. missing: an embedding request without an embedding config
PutQueriesOf(prep, config) ==
    [missing |-> prep.embedding_request # <<>> /\ config = NoConfig,
     queries |-> prep.queries \o VectorInserts(prep.embedding_request)]

PutQueries(put_ops, config) ==
    PutQueriesOf(_prepare_batch_PUT_queries(put_ops, config), config)

\* what _batch_search_ops does with prep, the statements and requests that
\* _prepare_batch_search_queries returned (or its exception): aborts: the
\* error raised before a statement, "" without one; calls: the calls of
\* embed_documents; queries: the statements it executes
SearchPhase(prep, config) ==
    [aborts |-> IF prep.raises THEN "Unsupported operator" ELSE "",
     calls |-> IF config = NoConfig THEN <<>>
               ELSE EmbedCalls("SearchOp",
                        [e \in DOMAIN prep.embedding_requests |->
                            prep.embedding_requests[e][2]]),
     queries |-> FilledQueries(prep, config)]

\* what _batch_put_ops does with prep, the statements and the request that
\* _prepare_batch_PUT_queries returned
PutPhase(prep, config) ==
    [aborts |-> IF prep.embedding_request # <<>> /\ config = NoConfig
                THEN "Embedding configuration is required" ELSE "",
     calls |-> IF config = NoConfig THEN <<>>
               ELSE EmbedCalls("PutOp", RequestTexts(prep.embedding_request)),
     queries |-> PutQueriesOf(prep, config).queries]

\* the phase of the group: the read phases neither abort nor embed
Phase(group) ==
    IF group = "SearchOp"
    THEN SearchPhase(_prepare_batch_search_queries(Grouped[group],
                                                   embedding_config),
                     embedding_config)
    ELSE IF group = "PutOp"
    THEN PutPhase(_prepare_batch_PUT_queries(Grouped[group], embedding_config),
                  embedding_config)
    ELSE [aborts |-> "", calls |-> <<>>,
          queries |-> IF group = "GetOp"
                      THEN _get_batch_GET_ops_queries(Grouped[group])
                      ELSE _get_batch_list_namespaces_queries(Grouped[group])]

\* the statements of the group the call is in
GroupQueries(group) == Phase(group).queries

\* the (namespace, key) the Puts of os write, and what the last of them puts
PutCells(os) ==
    { <<os[i].namespace, os[i].key>> :
        i \in { j \in DOMAIN os : os[j].type = "PutOp" } }
LastPut(os, cell) ==
    LET is == { i \in DOMAIN os : /\ os[i].type = "PutOp"
                                  /\ <<os[i].namespace, os[i].key>> = cell }
    IN os[CHOOSE i \in is : \A j \in is : j <= i]

-----------------------------------------------------------------------------
(* batch(): the actions *)

Idle == pc = "idle"

\* batch() up to the first group inside `with self._cursor(pipeline=True)`:
\* the operations are grouped, the result list is allocated, the lock is taken
\* (the connection is not in pipeline mode). A batch without operations
\* returns at once.
Begin(os) ==
    /\ LET g == _group_ops(os)
           next == NextGroup(g.grouped, "")
       IN /\ ops' = os
          /\ results' = [i \in 1..g.tot |-> NoneResult]
          /\ pc' = next
          /\ lock' = IF next = "returned" THEN "free" ELSE "batch"
    /\ executed' = <<>>
    /\ embed_calls' = <<>>
    /\ error' = ""
    /\ store0' = store
    /\ tomb0' = tomb
    /\ UNCHANGED <<dbVars, envVars, ledgerVars, embedding_config, tomb, setupVars,
                   callerVars, callVars>>

BatchBegin ==
    /\ Idle
    /\ lock = "free"
    /\ \E os \in Batches : Begin(os)

\* leaving the group pc for the next one, or the cursor section and batch()
Leave ==
    LET next == NextGroup(Grouped, pc)
    IN /\ pc' = next
       /\ lock' = IF next = "returned" THEN "free" ELSE lock
       /\ UNCHANGED <<ops, error>>

\* an exception raised in the group is caught there and batch() goes on
SwallowAndGoOn(group) == NextGroup(Grouped, group)

\* where an exception raised in the group takes batch(): no handler catches
\* it, it leaves the cursor section and batch()
Propagate(group) == "raised"

\* the call raises err: the exception leaves the cursor section, which rolls
\* back what the call has written (conn.pipeline() and conn.transaction()
\* both do) and releases the lock, and batch(); no result list is returned
Raise(err) ==
    /\ pc' = Propagate(pc)
    /\ lock' = "free"
    /\ results' = <<>>
    /\ error' = err
    /\ UNCHANGED ops

\* a phase ph whose loop over its statements ended as run tells (the tables
\* then and the number of statements executed): the phase aborts before its
\* first statement, or it makes its embedding calls and executes its
\* statements up to the first that fails; with none failing the results
\* become res
PhaseRun(ph, run, res) ==
    IF ph.aborts # ""
    THEN /\ Raise(ph.aborts)
         /\ UNCHANGED <<executed, embed_calls>>
    ELSE /\ embed_calls' = embed_calls \o ph.calls
         /\ executed' = executed \o Attempts(run.done, Len(ph.queries))
         /\ IF run.done = Len(ph.queries)
            THEN results' = res /\ Leave
            ELSE Raise("backend")

\* a read phase: the tables are left as they are
ReadPhase(ph, res) ==
    /\ PhaseRun(ph, Execute(Tables(store, store_vectors), schema, ph.queries, 1),
                res)
    /\ UNCHANGED <<dbVars, tomb>>

\* if GetOp in grouped_ops: self._batch_get_ops(...)
BatchGetOps ==
    /\ pc = "GetOp"
    /\ ReadPhase(Phase(pc), _batch_get_ops(Grouped[pc], results,
                                           Tables(store, store_vectors)))
    /\ UNCHANGED <<envVars, ledgerVars, embedding_config, store0, tomb0,
                   setupVars, callerVars, callVars>>

\* if SearchOp in grouped_ops: self._batch_search_ops(...): the statements
\* are compiled, which may raise, the queries are embedded, the statements
\* are executed
BatchSearchOps ==
    /\ pc = "SearchOp"
    /\ ReadPhase(Phase(pc),
                 _batch_search_ops(Grouped[pc], results,
                     Tables(store, store_vectors), embedding_config))
    /\ UNCHANGED <<envVars, ledgerVars, embedding_config, store0, tomb0,
                   setupVars, callerVars, callVars>>

\* if ListNamespacesOp in grouped_ops: self._batch_list_namespaces_ops(...)
BatchListNamespacesOps ==
    /\ pc = "ListNamespacesOp"
    /\ ReadPhase(Phase(pc),
                 _batch_list_namespaces_ops(Grouped[pc], results,
                                            Tables(store, store_vectors)))
    /\ UNCHANGED <<envVars, ledgerVars, embedding_config, store0, tomb0,
                   setupVars, callerVars, callVars>>

\* tomb once the Puts of os have been applied
TombAfter(os) ==
    (tomb \ { c \in PutCells(os) : LastPut(os, c).value # None })
        \cup { c \in PutCells(os) : LastPut(os, c).value = None }

\* the Put phase: with all statements executed the tables are as the
\* statements left them; an exception rolls back what the call has written
WritePhase(ph, run) ==
    /\ PhaseRun(ph, run, results)
    /\ IF ph.aborts = "" /\ run.done = Len(ph.queries)
       THEN /\ store' = run.db.store
            /\ store_vectors' = run.db.store_vectors
            /\ tomb' = TombAfter(ops)
       ELSE UNCHANGED <<dbVars, tomb>>

PutPhaseRun(ph) ==
    WritePhase(ph, Execute(Tables(store, store_vectors), schema, ph.queries, 1))

\* if PutOp in grouped_ops: self._batch_put_ops(...): the statements are
\* compiled, the texts are embedded, the statements are executed
BatchPutOps ==
    /\ pc = "PutOp"
    /\ PutPhaseRun(Phase(pc))
    /\ UNCHANGED <<envVars, ledgerVars, embedding_config, store0, tomb0,
                   setupVars, callerVars, callVars>>

\* the backend fails statement n + 1 of the phase ph, after the n before it
FailsAt(ph, n) ==
    /\ ph.aborts = ""
    /\ n < Len(ph.queries)
    /\ Execute(Tables(store, store_vectors), schema,
               SubSeq(ph.queries, 1, n), 1).done = n
    /\ executed' = executed \o Attempts(n, Len(ph.queries))
    /\ embed_calls' = embed_calls \o ph.calls

\* the backend fails statement n + 1 of the group the call is in, after the
\* n before it: the exception leaves the cursor section and batch()
BatchFail(n) ==
    /\ pc \in Range(OpTypes)
    /\ FailsAt(Phase(pc), n)
    /\ Raise("backend")
    /\ UNCHANGED <<dbVars, envVars, ledgerVars, embedding_config, store0,
                   tomb, tomb0, setupVars, callerVars, callVars>>

\* the embedding call of the phase ph fails
EmbedFailsIn(ph) ==
    /\ ph.aborts = ""
    /\ ph.calls # <<>>
    /\ embed_calls' = embed_calls \o ph.calls

\* the embedding call of the group the call is in fails: the exception leaves
\* the cursor section and batch() before a statement of the group has run
EmbedFail ==
    /\ pc \in {"SearchOp", "PutOp"}
    /\ EmbedFailsIn(Phase(pc))
    /\ Raise("embedding")
    /\ UNCHANGED <<dbVars, envVars, ledgerVars, embedding_config, store0,
                   tomb, tomb0, executed, setupVars, callerVars, callVars>>

\* `return results`, or the exception reaching the caller: the call is over
BatchExit ==
    /\ pc \in {"returned", "raised"}
    /\ pc' = "idle"
    /\ ops' = <<>>
    /\ results' = <<>>
    /\ executed' = <<>>
    /\ embed_calls' = <<>>
    /\ error' = ""
    /\ store0' = {}
    /\ tomb0' = {}
    /\ UNCHANGED <<dbVars, envVars, ledgerVars, embedding_config, lock, tomb,
                   setupVars, callerVars, callVars>>

-----------------------------------------------------------------------------
(* Migrations *)

\* MIGRATIONS[v + 1] is the migration of version v: whether it is a Migration
\* conditioned on check_vector_available, and the parameters its SQL takes
MIGRATIONS == <<
    [name |-> "CREATE TABLE store", condition |-> FALSE, params |-> {}],
    [name |-> "CREATE INDEX store_prefix_idx", condition |-> FALSE, params |-> {}],
    [name |-> "CREATE EXTENSION vector", condition |-> TRUE, params |-> {}],
    [name |-> "CREATE TABLE store_vectors", condition |-> TRUE, params |-> {"dims"}],
    [name |-> "CREATE INDEX store_vectors_embedding_idx", condition |-> TRUE,
     params |-> {}] >>

Versions == 0..(Len(MIGRATIONS) - 1)

\* an EmbeddingConfig: dims is "int" (a number), "absent" (the key is not
\* there: the TypedDict is total=False) or "unprintable" (an object that
\* cannot be formatted into the SQL)
EmbeddingConfig(dims, text_fields) ==
    <<[dims |-> dims, text_fields |-> text_fields]>>
Configs ==
    {NoConfig} \cup { EmbeddingConfig(d, <<"__root__">>) : d \in {"int", "absent", "unprintable"} }

\* the statements of setup() that the backend may fail
MigrationStatement(v) == <<"migration", v>>
LedgerInsert == <<"INSERT INTO store_migrations">>
Statements == { MigrationStatement(v) : v \in Versions } \cup {LedgerInsert}

check_vector_available(config, available) ==
    IF config = NoConfig THEN FALSE ELSE available

\* the highest version in the ledger, -1 for an empty one
LedgerVersion(ledger) ==
    IF ledger = {} THEN -1 ELSE CHOOSE v \in ledger : \A w \in ledger : w <= v

Event(v, what) == [v |-> v, what |-> what, again |-> v \in schema]

-----------------------------------------------------------------------------
(* setup(): the actions *)

\* setup() up to the loop: the version is read from the ledger, and the
\* ledger table is created when it does not exist. With no migration beyond
\* the version, setup() returns.
SetupBegin ==
    /\ spc = "idle"
    /\ LET v == IF ledger_table THEN LedgerVersion(store_migrations) ELSE -1
       IN /\ version' = v
          /\ mv' = v + 1
          /\ spc' = IF v + 1 \in Versions THEN "loop" ELSE "returned"
    /\ ledger_table' = TRUE
    /\ events' = <<>>
    /\ quiet' = IF quiet = "after" THEN "rerun" ELSE "first"
    /\ UNCHANGED <<dbVars, envVars, store_migrations, schema, embedding_config,
                   skipped, batchVars, callerVars, callVars>>

\* what one pass of the loop does with migration v:
\* "skipped", "raised", "format_failed", "failed", "unrecorded" or "applied"
Outcome(v, config, available, rejected) ==
    LET migration == MIGRATIONS[v + 1]
    IN IF migration.condition /\ ~check_vector_available(config, available)
       THEN "skipped"
       ELSE IF "dims" \in migration.params /\ config[1].dims = "absent"
       THEN "raised"
       ELSE IF "dims" \in migration.params /\ config[1].dims = "unprintable"
       THEN "format_failed"
       ELSE IF MigrationStatement(v) \in rejected
       THEN "failed"
       ELSE IF LedgerInsert \in rejected
       THEN "unrecorded"
       ELSE "applied"

\* the ledger with v recorded for a skipped migration too
RecordedAlsoSkipped(ledger, v, what) ==
    IF what \in {"applied", "skipped"} THEN ledger \cup {v} ELSE ledger

\* the ledger after the pass: INSERT INTO store_migrations (v) is reached,
\* and succeeds, for an applied migration only
Recorded(ledger, v, what) ==
    IF what = "applied" THEN ledger \cup {v} ELSE ledger

\* one pass of the loop over MIGRATIONS[version + 1:], and the return after
\* the last one
SetupStep ==
    /\ spc = "loop"
    /\ LET migration == MIGRATIONS[mv + 1]
           what == Outcome(mv, embedding_config, vector_available, rejects)
       IN /\ events' = IF what = "raised" THEN events
                       ELSE Append(events, Event(mv, what))
          /\ schema' = IF what \in {"unrecorded", "applied"}
                       THEN schema \cup {mv} ELSE schema
          /\ store_migrations' = Recorded(store_migrations, mv, what)
          /\ embedding_config' =
                 IF what \in {"format_failed", "failed", "unrecorded"}
                    /\ migration.condition
                 THEN NoConfig ELSE embedding_config
          /\ spc' = IF what = "raised" THEN "raised"
                    ELSE IF mv + 1 \in Versions THEN "loop" ELSE "returned"
          /\ mv' = IF what = "raised" THEN mv ELSE mv + 1
    /\ UNCHANGED <<dbVars, envVars, ledger_table, version, skipped, quiet,
                   batchVars, callerVars, callVars>>

\* setup() is over: it has returned or raised
SetupExit ==
    /\ spc \in {"returned", "raised"}
    /\ spc' = "idle"
    /\ events' = <<>>
    /\ skipped' = skipped \cup { events[i].v : i \in
                       { j \in DOMAIN events : events[j].what = "skipped" } }
    /\ quiet' = IF spc = "returned" /\ quiet # "none" THEN "after" ELSE "none"
    /\ UNCHANGED <<dbVars, envVars, ledgerVars, embedding_config, version, mv,
                   batchVars, callerVars, callVars>>

\* the database changes what it offers or what it fails: the vector
\* extension becomes available or unavailable, or the backend starts or stops
\* failing the statement s
EnvChange(s) ==
    /\ \/ /\ s = <<"pg_available_extensions">>
          /\ vector_available' = ~vector_available
          /\ UNCHANGED rejects
       \/ /\ s \in Statements \ rejects
          /\ Cardinality(rejects) < MaxRejects
          /\ rejects' = rejects \cup {s}
          /\ UNCHANGED vector_available
       \/ /\ s \in rejects
          /\ rejects' = rejects \ {s}
          /\ UNCHANGED vector_available
    /\ quiet' = "none"
    /\ UNCHANGED <<dbVars, ledgerVars, embedding_config, batchVars,
                   spc, version, mv, events, skipped, callerVars, callVars>>

\* PostgresStore(conn, embedding=config): another store on the same database
NewStore(config) ==
    /\ spc = "idle"
    /\ pc = "idle"
    /\ config # embedding_config
    /\ embedding_config' = config
    /\ quiet' = "none"
    /\ UNCHANGED <<dbVars, envVars, ledgerVars, batchVars,
                   spc, version, mv, events, skipped, callerVars, callVars>>

-----------------------------------------------------------------------------
(* The batch engine: batches on a store set up without an embedding config *)

\* PostgresStore(conn) after a setup() that applied the two table migrations
\* and skipped the vector ones
Init ==
    /\ store = {}
    /\ store_vectors = {}
    /\ ledger_table = TRUE
    /\ store_migrations = {0, 1}
    /\ schema = {0, 1}
    /\ vector_available = FALSE
    /\ rejects = {}
    /\ embedding_config = NoConfig
    /\ lock = "free"
    /\ pc = "idle"
    /\ ops = <<>>
    /\ results = <<>>
    /\ executed = <<>>
    /\ store0 = {}
    /\ tomb = {}
    /\ tomb0 = {}
    /\ embed_calls = <<>>
    /\ error = ""
    /\ spc = "idle"
    /\ version = -1
    /\ mv = 0
    /\ events = <<>>
    /\ skipped = {}
    /\ quiet = "none"
    /\ pipe = FALSE
    /\ cursor = <<>>
    /\ wire = <<>>
    /\ input = <<>>
    /\ output = <<>>

Next ==
    \/ BatchBegin
    \/ BatchExit
    \/ BatchGetOps
    \/ BatchSearchOps
    \/ BatchListNamespacesOps
    \/ BatchPutOps
    \/ \E n \in 0..MaxOps : BatchFail(n)

Spec == Init /\ [][Next]_vars

-----------------------------------------------------------------------------
(* Properties of batch() *)

\* the indices of the operations of type t in the submitted batch
OpsOfType(t) == { i \in DOMAIN ops : ops[i].type = t }

\* the row of table st for (namespace, key), as the Item a Get returns for it
StoredItem(st, namespace, key) ==
    LET rows == { r \in st : /\ r.prefix = _namespace_to_text(namespace, FALSE)
                             /\ r.key = key }
    IN IF rows = {} THEN NoneResult
       ELSE [kind |-> "Item", namespace |-> namespace, key |-> key,
             value |-> (CHOOSE r \in rows : TRUE).value]

\* C1: when batch() returns, the result list is as long as the submitted
\* list, and slot i holds the result of operation i: the Item of its own
\* (namespace, key) or null for a Get, a list of SearchItems under its own
\* prefix for a Search, a list of namespaces for a ListNamespaces, null for a
\* Put.
C1_ResultPerOperation ==
    pc = "returned" =>
        /\ Len(results) = Len(ops)
        /\ \A i \in DOMAIN ops :
             LET op == ops[i]
                 r == results[i]
             IN CASE op.type = "GetOp" ->
                       \/ r = NoneResult
                       \/ /\ r.kind = "Item"
                          /\ r.namespace = op.namespace
                          /\ r.key = op.key
                  [] op.type = "SearchOp" ->
                       /\ r.kind = "list"
                       /\ r.of = "SearchItem"
                       /\ \A it \in r.items :
                            /\ it.kind = "SearchItem"
                            /\ Len(it.namespace) >= Len(op.namespace_prefix)
                            /\ SubSeq(it.namespace, 1, Len(op.namespace_prefix))
                                   = op.namespace_prefix
                  [] op.type = "ListNamespacesOp" ->
                       /\ r.kind = "list"
                       /\ r.of = "namespace"
                  [] OTHER -> r = NoneResult

\* C1 happens: a batch of a Put followed by a Get has returned, with null in
\* the Put's slot and the stored Item in the Get's slot
C1_Witness ==
    /\ pc = "returned"
    /\ Len(ops) = 2
    /\ ops[1].type = "PutOp"
    /\ ops[2].type = "GetOp"
    /\ results[1] = NoneResult
    /\ results[2].kind = "Item"

\* the place of a group in the order Get, Search, ListNamespaces, Put
PhaseRank(g) ==
    CASE g = "GetOp" -> 1
      [] g = "SearchOp" -> 2
      [] g = "ListNamespacesOp" -> 3
      [] OTHER -> 4

\* C2: the statements of one batch() call are executed in the order Get,
\* Search, ListNamespaces, Put, whatever the order of the operations in the
\* submitted list; every read statement is executed while table store is
\* still as it was before any Put of the batch.
C2_ReadsBeforePuts ==
    /\ \A i, j \in DOMAIN executed :
         i < j => PhaseRank(executed[i].group) <= PhaseRank(executed[j].group)
    /\ \A i \in DOMAIN executed :
         executed[i].group # "PutOp" => executed[i].pre

\* C2 happens: a batch submitted a Put of a new row before a Get of the same
\* row; both have run, the row is stored, and the Get did not see it
C2_Witness ==
    /\ pc = "returned"
    /\ Len(ops) = 2
    /\ ops[1].type = "PutOp"
    /\ ops[1].value # None
    /\ ops[2].type = "GetOp"
    /\ <<ops[2].namespace, ops[2].key>> = <<ops[1].namespace, ops[1].key>>
    /\ Len(executed) = 2
    /\ executed[1].group = "GetOp"
    /\ executed[2].group = "PutOp"
    /\ results[2] = NoneResult
    /\ StoredItem(store, ops[2].namespace, ops[2].key) # NoneResult

\* C3: when a batch with several Puts to one (namespace, key) has returned,
\* the row holds the value of the last of them in submission order, and there
\* is no row when that last value is null.
C3_LastPutWins ==
    pc = "returned" =>
        \A c \in PutCells(ops) :
            LET last == LastPut(ops, c)
            IN StoredItem(store, c[1], c[2]) =
                   IF last.value = None THEN NoneResult
                   ELSE [kind |-> "Item", namespace |-> c[1], key |-> c[2],
                         value |-> last.value]

\* C3 happens: a batch of two Puts of different values to one (namespace, key)
\* has returned
C3_Witness ==
    /\ pc = "returned"
    /\ Len(ops) = 2
    /\ ops[1].type = "PutOp"
    /\ ops[2].type = "PutOp"
    /\ <<ops[1].namespace, ops[1].key>> = <<ops[2].namespace, ops[2].key>>
    /\ ops[1].value # ops[2].value
    /\ ops[1].value # None
    /\ StoredItem(store0, ops[1].namespace, ops[1].key) # NoneResult

\* C4: once a batch containing Put(namespace, key, null) has returned, a Get
\* of that (namespace, key) in a later batch returns null, until a later
\* non-null Put stores the key again.
C4_NullPutThenGetNotFound ==
    pc = "returned" =>
        \A i \in OpsOfType("GetOp") :
            <<ops[i].namespace, ops[i].key>> \in tomb0 => results[i] = NoneResult

\* C4 happens: a Get has returned for a (namespace, key) that an earlier batch
\* deleted by a null Put, next to a Get of a row that is stored
C4_Witness ==
    /\ pc = "returned"
    /\ \E i, j \in OpsOfType("GetOp") :
         /\ <<ops[i].namespace, ops[i].key>> \in tomb0
         /\ results[i] = NoneResult
         /\ results[j] # NoneResult

\* C5: the Gets of a batch that share a namespace are answered by one
\* statement, and each of them receives at its own index the Item of its own
\* key as stored when the batch began, also when two Gets name the same key;
\* a key without a row leaves null.
C5_GetsOfANamespace ==
    pc = "returned" =>
        \A i \in OpsOfType("GetOp") :
            results[i] = StoredItem(store0, ops[i].namespace, ops[i].key)

\* C5 happens: two Gets of one namespace and different keys were answered by
\* one statement, one with an Item and the other with null
C5_Witness ==
    /\ pc = "returned"
    /\ Len(executed) = 1
    /\ \E i, j \in OpsOfType("GetOp") :
         /\ ops[i].namespace = ops[j].namespace
         /\ ops[i].key # ops[j].key
         /\ results[i].kind = "Item"
         /\ results[j] = NoneResult

\* C5 happens for a repeated key as well: two Gets of the same stored key
C5_WitnessSameKey ==
    /\ pc = "returned"
    /\ Len(ops) = 2
    /\ ops[1] = ops[2]
    /\ ops[1].type = "GetOp"
    /\ results[1].kind = "Item"
    /\ results[2] = results[1]

-----------------------------------------------------------------------------
(* The migration runner: setup() calls on a database that starts empty *)

InitSetup ==
    /\ store = {}
    /\ store_vectors = {}
    /\ ledger_table = FALSE
    /\ store_migrations = {}
    /\ schema = {}
    /\ vector_available \in BOOLEAN
    /\ rejects = {}
    /\ embedding_config \in Configs
    /\ lock = "free"
    /\ pc = "idle"
    /\ ops = <<>>
    /\ results = <<>>
    /\ executed = <<>>
    /\ store0 = {}
    /\ tomb = {}
    /\ tomb0 = {}
    /\ embed_calls = <<>>
    /\ error = ""
    /\ spc = "idle"
    /\ version = -1
    /\ mv = 0
    /\ events = <<>>
    /\ skipped = {}
    /\ quiet = "none"
    /\ pipe = FALSE
    /\ cursor = <<>>
    /\ wire = <<>>
    /\ input = <<>>
    /\ output = <<>>

NextSetup ==
    \/ SetupBegin
    \/ SetupStep
    \/ SetupExit
    \/ \E s \in Statements \cup {<<"pg_available_extensions">>} : EnvChange(s)
    \/ \E c \in Configs : NewStore(c)

SetupSpec == InitSetup /\ [][NextSetup]_vars

-----------------------------------------------------------------------------
(* Properties of setup() *)

\* the versions this call has evaluated and not raised on
Evaluated == { events[i].v : i \in DOMAIN events }

\* the passes of this call that executed a migration statement with success
Executions ==
    { i \in DOMAIN events : events[i].what \in {"unrecorded", "applied"} }

\* C6: a setup() that follows a returned setup(), with the database and the
\* store as that first call left them, is a no-op: when it returns, the
\* highest version in the ledger is the one it read when it began, and it has
\* executed no migration statement that had taken effect before.
C6_SecondSetupIsNoOp ==
    (spc = "returned" /\ quiet = "rerun") =>
        /\ LedgerVersion(store_migrations) = version
        /\ \A i \in Executions : ~events[i].again

C8_InOrderAtMostOnce ==
    /\ \A i, j \in DOMAIN events : i < j => events[i].v < events[j].v
    /\ \A i \in Executions : ~events[i].again

\* C9: setup() never raises because of one migration: it returns, having
\* gone through every migration beyond the version it read from the ledger.
C9_MigrationFailureIsNotFatal ==
    /\ spc # "raised"
    /\ spc = "returned" => \A v \in Versions : v > version => v \in Evaluated

\* C10: when setup() returns and a migration conditioned on
\* check_vector_available was skipped or failed in the call, the embedding
\* config is None; a config that is set when setup() returns has the
\* store_vectors table in place.
C10_ConfigClearedWithoutVectors ==
    spc = "returned" =>
        /\ (\E i \in DOMAIN events :
               /\ MIGRATIONS[events[i].v + 1].condition
               /\ events[i].what # "applied")
           => embedding_config = NoConfig
        /\ embedding_config # NoConfig => 3 \in schema

-----------------------------------------------------------------------------
(* The vector paths: batches on a store with an embedding config *)

\* the fields the store embeds
TextFields == <<"data", "text">>
\* the (namespace, key) these batches write
VectorCells == { <<<<SegA>>, "k1">>, <<<<SegA>>, "k2">> }
\* documents with none, one and two of the embedded fields
VectorValues == {"v0", "v1", "v12"}
\* query of a Search: unset, empty, a text, another text
Queries == {None, "", "q", "r"}

VectorOps ==
    { PutOp(c[1], c[2], v) : c \in VectorCells, v \in VectorValues \cup {None} }
    \cup { SearchOp(<<SegA>>, <<>>, q) : q \in Queries }

VectorBatches == UNION { [1..n -> VectorOps] : n \in 0..MaxOps }

\* PostgresStore(conn, embedding=...) after a setup() that applied every
\* migration
VectorInit ==
    /\ store = {}
    /\ store_vectors = {}
    /\ ledger_table = TRUE
    /\ store_migrations = Versions
    /\ schema = Versions
    /\ vector_available = TRUE
    /\ rejects = {}
    /\ embedding_config = EmbeddingConfig("int", TextFields)
    /\ lock = "free"
    /\ pc = "idle"
    /\ ops = <<>>
    /\ results = <<>>
    /\ executed = <<>>
    /\ store0 = {}
    /\ tomb = {}
    /\ tomb0 = {}
    /\ embed_calls = <<>>
    /\ error = ""
    /\ spc = "idle"
    /\ version = -1
    /\ mv = 0
    /\ events = <<>>
    /\ skipped = {}
    /\ quiet = "none"
    /\ pipe = FALSE
    /\ cursor = <<>>
    /\ wire = <<>>
    /\ input = <<>>
    /\ output = <<>>

VectorBegin ==
    /\ Idle
    /\ lock = "free"
    /\ \E os \in VectorBatches : Begin(os)

VectorNext ==
    \/ VectorBegin
    \/ BatchExit
    \/ BatchSearchOps
    \/ BatchPutOps
    \/ \E n \in 0..MaxOps : BatchFail(n)
    \/ EmbedFail

VectorSpec == VectorInit /\ [][VectorNext]_vars

-----------------------------------------------------------------------------
(* Properties of the embedding calls *)

\* the query texts of the Searches of os that ask for a semantic search
PendingQueries(os) ==
    LET searches == SelectSeq(os, LAMBDA o : o.type = "SearchOp")
        asking == SelectSeq(searches, LAMBDA o : o.query \notin {None, ""})
    IN [j \in DOMAIN asking |-> asking[j].query]

\* the (namespace, key, field) whose text the Puts of os leave to embed
PendingFragments(os) ==
    { t \in PutCells(os) \X Range(TextFields) :
        /\ LastPut(os, t[1]).value # None
        /\ t[2] \in DOMAIN Document(LastPut(os, t[1]).value) }

\* the calls of embed_documents made for a phase
CallsOf(phase) == SelectSeq(embed_calls, LAMBDA c : c.phase = phase)

\* C11: within one batch the embedding capability is called at most once for
\* the Put phase and at most once for the Search phase, each call carrying at
\* least one text, and never for a phase that has no pending text.
C11_EmbedAtMostOncePerPhase ==
    /\ \A c \in Range(embed_calls) :
         c.phase \in {"SearchOp", "PutOp"} /\ c.texts # <<>>
    /\ Len(CallsOf("SearchOp")) <= 1
    /\ Len(CallsOf("PutOp")) <= 1
    /\ PendingQueries(ops) = <<>> => CallsOf("SearchOp") = <<>>
    /\ PendingFragments(ops) = {} => CallsOf("PutOp") = <<>>

\* C11 happens: a batch of a Search without a query and a Put of a document
\* with one embedded field has returned, having called the embedding once,
\* for the Put phase
C11_Witness ==
    /\ pc = "returned"
    /\ \E i \in DOMAIN ops : ops[i].type = "SearchOp"
    /\ PendingQueries(ops) = <<>>
    /\ PendingFragments(ops) # {}
    /\ Len(embed_calls) = 1
    /\ embed_calls[1].phase = "PutOp"

\* the texts of the fragments the Puts of os leave to embed
FragmentTexts(os) ==
    { Document(LastPut(os, t[1]).value)[t[2]] : t \in PendingFragments(os) }

\* a batch with pending embedding work of both kinds has returned
BothPending ==
    /\ pc = "returned"
    /\ PendingQueries(ops) # <<>>
    /\ PendingFragments(ops) # {}

\* C12 as stated: a batch with pending embedding work from both Puts and
\* Searches calls the embedding capability exactly once, with the full list
\* of the texts of both kinds.
C12_OneCallPerBatch ==
    BothPending =>
        /\ Len(embed_calls) = 1
        /\ Range(embed_calls[1].texts)
               = Range(PendingQueries(ops)) \cup FragmentTexts(ops)

\* C12 amended: such a batch calls the embedding capability exactly twice,
\* first for the Search phase with the full list of the query texts, then
\* for the Put phase with the full list of the texts of the fragments.
C12_OneCallPerPhase ==
    BothPending =>
        /\ Len(embed_calls) = 2
        /\ embed_calls[1] = [phase |-> "SearchOp", texts |-> PendingQueries(ops)]
        /\ embed_calls[2].phase = "PutOp"
        /\ Len(embed_calls[2].texts) = Cardinality(PendingFragments(ops))
        /\ Range(embed_calls[2].texts) = FragmentTexts(ops)

\* C12 happens: a batch of a semantic Search and a Put of a document with an
\* embedded field has returned
C12_Witness ==
    /\ BothPending
    /\ \E i, j \in DOMAIN ops :
         /\ ops[i].type = "SearchOp" /\ ops[i].query = "q"
         /\ ops[j].type = "PutOp" /\ ops[j].value = "v1"
    /\ Cardinality(store_vectors) >= 1

-----------------------------------------------------------------------------
(* Filtered searches: batches over documents with a numeric field *)

\* the (namespace, key) these batches address
FilterCells == { <<<<SegA>>, "k1">>, <<<<SegA>>, "k2">> }
\* the operands of the comparisons
Operands == {9, 10}
\* filters {"score": {op: x}}: a comparison the store knows, an operator it
\* does not know
Filters ==
    { <<[key |-> "score", op |-> "$gt", val |-> x]>> : x \in Operands }
    \cup { <<[key |-> "score", op |-> "$foo", val |-> 9]>> }

FilterOps ==
    { GetOp(c[1], c[2]) : c \in FilterCells }
    \cup { PutOp(c[1], c[2], v) : c \in FilterCells, v \in NumericValues }
    \cup { SearchOp(<<SegA>>, f, None) : f \in Filters }

FilterBatches == UNION { [1..n -> FilterOps] : n \in 0..MaxOps }

FilterBegin ==
    /\ Idle
    /\ lock = "free"
    /\ \E os \in FilterBatches : Begin(os)

FilterNext ==
    \/ FilterBegin
    \/ BatchExit
    \/ BatchGetOps
    \/ BatchSearchOps
    \/ BatchPutOps
    \/ \E n \in 0..MaxOps : BatchFail(n)

FilterSpec == Init /\ [][FilterNext]_vars

-----------------------------------------------------------------------------
(* Properties of filtered searches *)

\* C13: a batch holding a Search whose filter uses an operator outside
\* {$eq, $ne, $gt, $gte, $lt, $lte} fails with the unsupported-operator error
\* before any statement of the batch has been executed, the statements of its
\* Gets included.
C13_UnsupportedBeforeAnyStatement ==
    error = "Unsupported operator" => executed = <<>>

\* the (namespace, key) of the rows of table st under the prefix of op whose
\* numeric field is greater than x
GreaterThan(st, op, x) ==
    { <<_decode_ns_bytes(r.prefix), r.key>> :
        r \in { t \in st :
                  /\ Like(t.prefix,
                          _namespace_to_text(op.namespace_prefix, FALSE) \o <<"%">>)
                  /\ t.value \in NumericValues
                  /\ Score(t.value) > x } }

\* C16: a Search with the filter {field: {"$gt": x}} for a number x returns
\* exactly the items whose numeric field is greater than x, whatever the
\* numbers of digits of the two values.
C16_GtIsNumeric ==
    pc = "returned" =>
        \A i \in DOMAIN ops :
            (/\ ops[i].type = "SearchOp"
             /\ Len(ops[i].filter) = 1
             /\ ops[i].filter[1].op = "$gt")
            => { <<it.namespace, it.key>> : it \in results[i].items }
                   = GreaterThan(store0, ops[i], ops[i].filter[1].val)

-----------------------------------------------------------------------------
(* Callers sharing one store: batch() calls of several threads *)

\* the threads that call batch() on the store
Callers == {"t1", "t2"}

\* the cursor section is entered without the lock
TakesLockNever(p, pipeline) == FALSE

\* whether _cursor(pipeline=...) takes self.lock around its cursor: on a
\* store without a pipe, when asked for a pipeline
TakesLock(p, pipeline) == ~p /\ pipeline

\* PostgresStore(conn) or PostgresStore(conn, pipe=pipe), no call made yet
LockInit ==
    /\ store = {}
    /\ store_vectors = {}
    /\ ledger_table = TRUE
    /\ store_migrations = {0, 1}
    /\ schema = {0, 1}
    /\ vector_available = FALSE
    /\ rejects = {}
    /\ embedding_config = NoConfig
    /\ lock = "free"
    /\ pc = "idle"
    /\ ops = <<>>
    /\ results = <<>>
    /\ executed = <<>>
    /\ store0 = {}
    /\ tomb = {}
    /\ tomb0 = {}
    /\ embed_calls = <<>>
    /\ error = ""
    /\ spc = "idle"
    /\ version = -1
    /\ mv = 0
    /\ events = <<>>
    /\ skipped = {}
    /\ quiet = "none"
    /\ pipe \in BOOLEAN
    /\ cursor = [t \in Callers |-> [at |-> "out", left |-> 0]]
    /\ wire = <<>>
    /\ input = <<>>
    /\ output = <<>>

lockFrame == <<dbVars, envVars, ledgerVars, embedding_config, pc, ops, results,
               executed, store0, tomb, tomb0, embed_calls, error, setupVars,
               pipe, callVars>>

\* the history once the call of t is over: its statements are marked, marks
\* that follow a mark or that start the history are dropped
Over(w, t) ==
    LET marked == [i \in DOMAIN w |-> IF w[i] = t THEN "over" ELSE w[i]]
        kept == SelectSeq([i \in DOMAIN w |-> i],
                    LAMBDA i : \/ marked[i] # "over"
                               \/ i > 1 /\ marked[i - 1] # "over")
    IN [j \in DOMAIN kept |-> marked[kept[j]]]

\* thread t calls batch() with operations that compile to n statements and
\* reaches `with self._cursor(pipeline=True)`
CursorEnter(t, n) ==
    /\ cursor[t].at = "out"
    /\ cursor' = [cursor EXCEPT ![t] = [at |-> "entering", left |-> n]]
    /\ UNCHANGED <<lock, wire, lockFrame>>

\* `with self.lock, conn.pipeline(), conn.cursor(...)`: t blocks until the
\* lock is free and takes it; with a pipe no lock is taken
CursorAcquire(t) ==
    /\ cursor[t].at = "entering"
    /\ IF TakesLock(pipe, TRUE)
       THEN lock = "free" /\ lock' = t
       ELSE UNCHANGED lock
    /\ cursor' = [cursor EXCEPT ![t].at = "in"]
    /\ UNCHANGED <<wire, lockFrame>>

\* cur.execute of the next statement of t's batch on the connection
CursorExecute(t) ==
    /\ cursor[t].at = "in"
    /\ cursor[t].left > 0
    /\ wire' = Append(wire, t)
    /\ cursor' = [cursor EXCEPT ![t].left = @ - 1]
    /\ UNCHANGED <<lock, lockFrame>>

\* t leaves the with block, all statements executed or on an exception: the
\* lock, if t holds it, is released
CursorExit(t) ==
    /\ cursor[t].at = "in"
    /\ cursor' = [cursor EXCEPT ![t].at = "out", ![t].left = 0]
    /\ lock' = IF lock = t THEN "free" ELSE lock
    /\ wire' = Over(wire, t)
    /\ UNCHANGED lockFrame

LockNext ==
    \E t \in Callers :
        \/ \E n \in 1..MaxOps : CursorEnter(t, n)
        \/ CursorAcquire(t)
        \/ CursorExecute(t)
        \/ CursorExit(t)

LockSpec == LockInit /\ [][LockNext]_vars

-----------------------------------------------------------------------------
(* Properties of concurrent batch() calls *)

\* C14: on a store without a pipe at most one batch() call at a time is
\* inside its cursor section, and the statements of two concurrent calls are
\* never interleaved on the connection: the statements of one call are
\* consecutive.
C14_OneBatchAtATime ==
    ~pipe =>
        /\ Cardinality({ t \in Callers : cursor[t].at = "in" }) <= 1
        /\ \A t \in Callers : cursor[t].at = "in" => lock = t
        /\ \A i, k \in DOMAIN wire :
             (i < k /\ wire[i] = wire[k] /\ wire[i] \in Callers) =>
                 \A j \in i..k : wire[j] = wire[i]

\* C14 happens: on a store without a pipe, t1 has executed one of the two
\* statements of its batch while t2 waits to enter its cursor section
C14_Witness ==
    /\ ~pipe
    /\ cursor["t1"].at = "in"
    /\ cursor["t1"].left = 1
    /\ wire # <<>>
    /\ wire[Len(wire)] = "t1"
    /\ cursor["t2"].at = "entering"

-----------------------------------------------------------------------------
(* Properties of a failing statement *)

\* the positions in executed of the statements that failed
FailedStatements == { i \in DOMAIN executed : ~executed[i].ok }

\* C15: when a statement of a batch fails, it is not retried and none of the
\* statements that remain is executed (the failed statement is the last one
\* of the call), and batch() raises instead of returning a result list.
C15_FailureEndsTheBatch ==
    /\ \A i \in FailedStatements : i = Len(executed)
    /\ FailedStatements # {} =>
         /\ pc = "raised"
         /\ error = "backend"
         /\ results = <<>>

\* C15 happens: the SELECT of the Gets of a batch that also holds a Put has
\* failed, and batch() has raised without executing a statement for the Put
C15_Witness ==
    /\ pc = "raised"
    /\ \E i \in DOMAIN ops : ops[i].type = "PutOp"
    /\ Len(executed) = 1
    /\ executed[1].group = "GetOp"
    /\ ~executed[1].ok

-----------------------------------------------------------------------------
(* The namespace codec applied to a namespace *)

\* the characters of a segment: none is the separator
SegmentChars == {"a", "b", "*"}
\* the segments: texts of up to MaxSegLen characters, the empty one included
Segments == UNION { [1..n -> SegmentChars] : n \in 0..MaxSegLen }
\* the namespaces: non-empty sequences of segments
Namespaces == UNION { [1..n -> Segments] : n \in 1..MaxSegs }

CodecInit ==
    /\ store = {}
    /\ store_vectors = {}
    /\ ledger_table = TRUE
    /\ store_migrations = {0, 1}
    /\ schema = {0, 1}
    /\ vector_available = FALSE
    /\ rejects = {}
    /\ embedding_config = NoConfig
    /\ lock = "free"
    /\ pc = "idle"
    /\ ops = <<>>
    /\ results = <<>>
    /\ executed = <<>>
    /\ store0 = {}
    /\ tomb = {}
    /\ tomb0 = {}
    /\ embed_calls = <<>>
    /\ error = ""
    /\ spc = "idle"
    /\ version = -1
    /\ mv = 0
    /\ events = <<>>
    /\ skipped = {}
    /\ quiet = "none"
    /\ pipe = FALSE
    /\ cursor = <<>>
    /\ wire = <<>>
    /\ input = <<>>
    /\ output = <<>>

\* a caller hands a namespace to the codec
CodecCall ==
    /\ input = <<>>
    /\ \E namespace \in Namespaces : input' = <<namespace>>
    /\ UNCHANGED <<dbVars, envVars, ledgerVars, embedding_config, batchVars,
                   setupVars, callerVars, output>>

\* _decode_ns_bytes(_namespace_to_text(namespace)): the text written to the
\* prefix column and the namespace read back from it
RoundTrip ==
    /\ input # <<>>
    /\ output = <<>>
    /\ output' = LET text == _namespace_to_text(input[1], FALSE)
                 IN <<[text |-> text, namespace |-> _decode_ns_bytes(text)]>>
    /\ UNCHANGED <<dbVars, envVars, ledgerVars, embedding_config, batchVars,
                   setupVars, callerVars, input>>

CodecNext == CodecCall \/ RoundTrip

CodecSpec == CodecInit /\ [][CodecNext]_vars

\* C17: decoding the encoding of a namespace gives the namespace back, for
\* every non-empty sequence of segments none of which contains the separator.
C17_RoundTrip ==
    output # <<>> => output[1].namespace = input[1]

\* C17 happens: a namespace of two segments, the second one empty, has been
\* encoded to the text "a." and decoded to itself
C17_Witness ==
    /\ input = <<<<SegA, <<>>>>>>
    /\ output # <<>>
    /\ output[1].text = <<"a", ".">>
    /\ output[1].namespace = <<SegA, <<>>>>

-----------------------------------------------------------------------------
(* Properties of ListNamespaces *)

\* the first max_depth segments of a namespace, all of them if max_depth is
\* unset
FirstSegments(namespace, max_depth) ==
    IF max_depth = <<>> \/ max_depth[1] >= Len(namespace) THEN namespace
    ELSE SubSeq(namespace, 1, max_depth[1])

\* the namespaces of the rows of table st
StoredNamespaces(st) == { _decode_ns_bytes(r.prefix) : r \in st }

\* C18: a ListNamespaces with max_depth d returns each distinct namespace
\* truncated to its first d segments exactly once, and the whole namespaces
\* when max_depth is unset.
C18_TruncatedOnce ==
    pc = "returned" =>
        \A i \in DOMAIN ops :
            (ops[i].type = "ListNamespacesOp" /\ ops[i].match_conditions = <<>>)
            => LET listed == results[i].items
               IN /\ \A j, k \in DOMAIN listed : listed[j] = listed[k] => j = k
                  /\ Range(listed) =
                         { FirstSegments(ns, ops[i].max_depth) :
                             ns \in StoredNamespaces(store0) }

\* C18 happens: with items stored under (a) and under (a, b), a ListNamespaces
\* with max_depth 1 has returned the one namespace (a)
C18_Witness ==
    /\ pc = "returned"
    /\ StoredNamespaces(store0) = {<<SegA>>, <<SegA, SegB>>}
    /\ \E i \in DOMAIN ops :
         /\ ops[i] = ListNamespacesOp(<<>>, <<1>>)
         /\ results[i].items = <<<<SegA>>>>

-----------------------------------------------------------------------------
(* Properties of the items of a Search *)

\* the items results[i] of the Search ops[i] that carry a score
Scored(i) == { it \in results[i].items : "score" \in DOMAIN it }

\* C19: an item returned by a Search carries a score only when the Search had
\* a semantic query: with a null or an empty query no item has a score, with
\* a non-empty query on a store with an embedding config every item has one.
C19_ScoreIffSemanticQuery ==
    pc = "returned" =>
        \A i \in DOMAIN ops :
            ops[i].type = "SearchOp" =>
                IF ops[i].query \in {None, ""} \/ embedding_config = NoConfig
                THEN Scored(i) = {}
                ELSE Scored(i) = results[i].items

\* C19 happens: on a store with an embedding config, a batch of a Search with
\* an empty query and a Search with a query text has returned items for
\* both, without a score for the first and with a score for the second
C19_Witness ==
    /\ pc = "returned"
    /\ embedding_config # NoConfig
    /\ Len(ops) = 2
    /\ ops[1].type = "SearchOp" /\ ops[1].query = ""
    /\ ops[2].type = "SearchOp" /\ ops[2].query = "q"
    /\ results[1].items # {} /\ Scored(1) = {}
    /\ results[2].items # {} /\ Scored(2) = results[2].items

-----------------------------------------------------------------------------
(* Properties of the vector writes *)

\* the vector-write statements the Put phase of the call executes
VectorWrites ==
    { q \in Range(GroupQueries("PutOp")) : q.stmt = "vec_upsert" }

\* C20: on a store with an embedding config, whatever the number of text
\* fragments the upserted values of a batch yield, every vector-write
\* statement is passed as many parameters as it has placeholders (four for
\* each of its VALUES tuples), and the batch, when the backend fails no
\* statement, returns having written one embedding row for each
\* (namespace, key, field) that yields a fragment.
C20_VectorWritesWellFormed ==
    /\ pc = "PutOp" =>
         \A q \in VectorWrites : Len(q.params) = 4 * q.tuples
    /\ pc = "returned" =>
         \A t \in PendingFragments(ops) :
             [prefix |-> _namespace_to_text(t[1][1], FALSE), key |-> t[1][2],
              field_name |-> t[2]] \in store_vectors

-----------------------------------------------------------------------------
(* Text extraction by path *)

\* the number of pieces of the paths handed to the extraction
MaxPathPieces == 3

\* the value trees, by name
TreeNames == {"example", "list", "mixed", "scalar"}
TreeOf(name) ==
    CASE name = "example" ->
           Dict(<< <<<<"a">>, Dict(<< <<<<"b">>, List(<<Number(10), Number(20)>>)>> >>)>> >>)
      [] name = "list" -> List(<<Number(1), Number(2)>>)
      [] name = "mixed" ->
           Dict(<< <<<<"a">>, List(<<Dict(<< <<<<"b">>, Str("y")>> >>), Number(5)>>)>>,
                   <<<<"b">>, Null>> >>)
      [] OTHER -> Str("z")

\* the indices written between brackets
Indices == {0, 2, -1, -3}
IndexPiece(k) ==
    <<"[">> \o (IF k < 0 THEN <<"-">> \o str(0 - k) ELSE str(k)) \o <<"]">>

\* the pieces paths are made of: field names, indices, a bracket group that
\* is no integer, wildcards and a multi-field selection
FieldPieces == { <<"a">>, <<"b">>, <<"c">> }
PathPieces ==
    FieldPieces \cup { IndexPiece(k) : k \in Indices }
    \cup { <<"[", "x", "]">>, <<"*">>, <<"{", "a", ",", " ", "b", "}">> }

\* the path text of a sequence of pieces: a "." before every piece but a
\* bracket group and the first
RECURSIVE PathOf(_)
PathOf(pieces) ==
    IF pieces = <<>> THEN <<>>
    ELSE IF Len(pieces) = 1 THEN pieces[1]
    ELSE PathOf(SubSeq(pieces, 1, Len(pieces) - 1))
         \o (IF Head(pieces[Len(pieces)]) = "[" THEN <<>> ELSE <<".">>)
         \o pieces[Len(pieces)]
Paths ==
    { PathOf(pieces) : pieces \in UNION { [1..n -> PathPieces] : n \in 1..MaxPathPieces } }

\* a caller hands a value and a path to the extraction
ExtractCall ==
    /\ input = <<>>
    /\ \E name \in TreeNames, path \in Paths :
          input' = <<[obj |-> name, path |-> path]>>
    /\ UNCHANGED <<dbVars, envVars, ledgerVars, embedding_config, batchVars,
                   setupVars, callerVars, output>>

\* _extract_text_by_path(obj, path) returns or raises
ExtractReturn ==
    /\ input # <<>>
    /\ output = <<>>
    /\ output' = <<_extract_text_by_path(TreeOf(input[1].obj), input[1].path)>>
    /\ UNCHANGED <<dbVars, envVars, ledgerVars, embedding_config, batchVars,
                   setupVars, callerVars, input>>

ExtractNext == ExtractCall \/ ExtractReturn

ExtractSpec == CodecInit /\ [][ExtractNext]_vars

\* the extraction from tree name under path has returned these fragments
Extracted(name, path, texts) ==
    /\ input[1].obj = name
    /\ input[1].path = path
    => output[1].texts = texts

\* C21: text extraction never raises, for any value tree and any path: a
\* missing field, an index out of range after a negative index has been
\* normalised to len + i, a non-integer index and a type mismatch give no
\* fragment, an index in range gives the fragments of that element, and
\* path "a.b[0]" on {"a": {"b": [10, 20]}} gives ["10"].
C21_ExtractionNeverRaises ==
    output # <<>> =>
        /\ ~output[1].raises
        /\ Extracted("example", <<"a", ".", "b", "[", "0", "]">>, <<str(10)>>)
        /\ Extracted("example", <<"c">>, <<>>)
        /\ Extracted("example", <<"a", ".", "c">>, <<>>)
        /\ Extracted("list", IndexPiece(0), <<str(1)>>)
        /\ Extracted("list", IndexPiece(-1), <<str(2)>>)
        /\ Extracted("list", IndexPiece(2), <<>>)
        /\ Extracted("list", IndexPiece(-3), <<>>)
        /\ Extracted("example", <<"a", ".", "b">> \o IndexPiece(-3), <<>>)
        /\ Extracted("list", <<"[", "x", "]">>, <<>>)
        /\ Extracted("list", <<"a">>, <<>>)
        /\ Extracted("scalar", <<"a">>, <<>>)
        /\ Extracted("example", IndexPiece(0), <<>>)
        /\ Extracted("scalar", IndexPiece(0), <<>>)

\* C21 happens: path "a.b[0]" on {"a": {"b": [10, 20]}} has returned ["10"]
C21_Witness ==
    /\ input # <<>>
    /\ output # <<>>
    /\ input[1].obj = "example"
    /\ input[1].path = <<"a", ".", "b", "[", "0", "]">>
    /\ ~output[1].raises
    /\ output[1].texts = <<<<"1", "0">>>>

-----------------------------------------------------------------------------
(* Namespace matching: Searches under a prefix, ListNamespaces under match
   conditions, over namespaces whose texts share leading characters *)

SegAB == <<"a", "b">>
SegC == <<"c">>
Wildcard == <<"*">>

\* the namespaces items are stored under
MatchNamespaces == { <<SegA>>, <<SegAB, SegC>>, <<SegA, SegB, SegC>> }

\* match conditions of a ListNamespaces
MatchCondition(match_type, path) == [match_type |-> match_type, path |-> path]
MatchConditions ==
    { MatchCondition("prefix", <<SegA>>),
      MatchCondition("prefix", <<Wildcard, SegC>>),
      MatchCondition("suffix", <<SegB, Wildcard>>),
      MatchCondition("suffix", <<SegC>>) }

MatchOps ==
    { PutOp(ns, "k1", "v1") : ns \in MatchNamespaces }
    \cup { SearchOp(ns, <<>>, None) : ns \in {<<SegA>>, <<SegAB>>} }
    \cup { ListNamespacesOp(<<c>>, <<>>) : c \in MatchConditions }

MatchBatches == UNION { [1..n -> MatchOps] : n \in 0..MaxOps }

MatchBegin ==
    /\ Idle
    /\ lock = "free"
    /\ \E os \in MatchBatches : Begin(os)

MatchNext ==
    \/ MatchBegin
    \/ BatchExit
    \/ BatchSearchOps
    \/ BatchListNamespacesOps
    \/ BatchPutOps
    \/ \E n \in 0..MaxOps : BatchFail(n)

MatchSpec == Init /\ [][MatchNext]_vars

\* segment-wise matching: pattern and segments have the same length and
\* agree at every position where the pattern is not "*"
SegmentsMatch(pattern, segments) ==
    /\ Len(pattern) = Len(segments)
    /\ \A k \in DOMAIN pattern : pattern[k] = Wildcard \/ pattern[k] = segments[k]

\* the pattern matches the leading / the trailing segments of the namespace
MatchesPrefix(pattern, namespace) ==
    /\ Len(pattern) <= Len(namespace)
    /\ SegmentsMatch(pattern, SubSeq(namespace, 1, Len(pattern)))
MatchesSuffix(pattern, namespace) ==
    /\ Len(pattern) <= Len(namespace)
    /\ SegmentsMatch(pattern, SubSeq(namespace, Len(namespace) - Len(pattern) + 1,
                                     Len(namespace)))

\* C22: a Search with namespace_prefix P returns only items whose namespace
\* has P as its leading segments; the prefix (a) does not return an item of
\* namespace (ab, c).
C22_SearchPrefixBySegments ==
    pc = "returned" =>
        \A i \in DOMAIN ops :
            ops[i].type = "SearchOp" =>
                \A it \in results[i].items :
                    /\ Len(ops[i].namespace_prefix) <= Len(it.namespace)
                    /\ SubSeq(it.namespace, 1, Len(ops[i].namespace_prefix))
                           = ops[i].namespace_prefix

\* C23: the prefix and suffix match conditions of a ListNamespaces are
\* matched segment by segment, "*" matching exactly one segment: every
\* namespace returned has the path of each prefix condition as its leading
\* segments and the path of each suffix condition as its trailing segments.
C23_ConditionsBySegments ==
    pc = "returned" =>
        \A i \in DOMAIN ops :
            ops[i].type = "ListNamespacesOp" =>
                \A k \in DOMAIN results[i].items :
                    \A c \in DOMAIN ops[i].match_conditions :
                        IF ops[i].match_conditions[c].match_type = "prefix"
                        THEN MatchesPrefix(ops[i].match_conditions[c].path,
                                           results[i].items[k])
                        ELSE MatchesSuffix(ops[i].match_conditions[c].path,
                                           results[i].items[k])

-----------------------------------------------------------------------------
(* Properties of the query embeddings *)

\* the Searches of the call, in order, and whether the j-th of them has a
\* semantic query
Searches == [j \in DOMAIN Grouped["SearchOp"] |-> Grouped["SearchOp"][j][2]]
Semantic(j) == Searches[j].query \notin {None, ""}

\* the vectors embed_documents returns for the semantic queries of the call,
\* in the order of their Searches
ReturnedVectors ==
    embed_documents([k \in DOMAIN SelectSeq(Searches, LAMBDA op : op.query \notin {None, ""}) |->
                        SelectSeq(Searches, LAMBDA op : op.query \notin {None, ""})[k].query])

\* C24: in a batch of several Searches of which only some have a semantic
\* query, the k-th vector returned fills the vector slot of the k-th Search
\* that asked for an embedding, and the statements of the Searches without a
\* semantic query are executed as they were compiled.
C24_VectorToItsSearch ==
    (pc = "SearchOp" /\ embedding_config # NoConfig) =>
        \A j \in DOMAIN Searches :
            IF Semantic(j)
            THEN GroupQueries("SearchOp")[j].embedding
                     = ReturnedVectors[Cardinality({ i \in 1..j : Semantic(i) })]
            ELSE GroupQueries("SearchOp")[j]
                     = _prepare_batch_search_queries(
                           Grouped["SearchOp"], embedding_config).queries[j]

\* C24 happens: a batch of a Search without a query and a Search with the
\* query "q" is about to execute the first statement without a vector and
\* the second with the vector of "q"
C24_Witness ==
    /\ pc = "SearchOp"
    /\ embedding_config # NoConfig
    /\ ops = <<SearchOp(<<SegA>>, <<>>, None), SearchOp(<<SegA>>, <<>>, "q")>>
    /\ GroupQueries("SearchOp")[1].embedding = None
    /\ GroupQueries("SearchOp")[2].embedding = Embedding("q")

-----------------------------------------------------------------------------
(* Properties of the compiled statements *)

\* the statements of kind stmt among those the group compiles to
StatementsOf(group, stmt) ==
    { j \in DOMAIN GroupQueries(group) : GroupQueries(group)[j].stmt = stmt }

\* the namespaces of the Gets of the batch, and of the (namespace, key) whose
\* last Put of the batch is a deletion
GetNamespaces == { ops[i].namespace : i \in OpsOfType("GetOp") }
DeletedNamespaces ==
    { c[1] : c \in { d \in PutCells(ops) : LastPut(ops, d).value = None } }

\* C25: the Gets of a batch compile to exactly one select per distinct
\* namespace, its de-duplicated deletions to exactly one delete per distinct
\* namespace, and its de-duplicated upserts to exactly one upsert statement.
C25_OneStatementPerNamespace ==
    /\ pc = "GetOp" =>
         /\ \A j \in DOMAIN GroupQueries("GetOp") :
                GroupQueries("GetOp")[j].stmt = "select"
         /\ \A ns \in GetNamespaces :
                Cardinality({ j \in StatementsOf("GetOp", "select") :
                                GroupQueries("GetOp")[j].prefix
                                    = _namespace_to_text(ns, FALSE) }) = 1
         /\ Cardinality(StatementsOf("GetOp", "select"))
                = Cardinality(GetNamespaces)
    /\ pc = "PutOp" =>
         /\ \A ns \in DeletedNamespaces :
                Cardinality({ j \in StatementsOf("PutOp", "delete") :
                                GroupQueries("PutOp")[j].prefix
                                    = _namespace_to_text(ns, FALSE) }) = 1
         /\ Cardinality(StatementsOf("PutOp", "delete"))
                = Cardinality(DeletedNamespaces)
         /\ Cardinality(StatementsOf("PutOp", "upsert"))
                = IF \E c \in PutCells(ops) : LastPut(ops, c).value # None
                  THEN 1 ELSE 0

\* C25 happens: two Gets of one namespace are about to run as one select,
\* and two Puts of values under different namespaces as one upsert
C25_Witness ==
    \/ /\ pc = "GetOp"
       /\ ops = <<GetOp(<<SegA>>, "k1"), GetOp(<<SegA>>, "k2")>>
       /\ Len(GroupQueries("GetOp")) = 1
    \/ /\ pc = "PutOp"
       /\ ops = <<PutOp(<<SegA>>, "k1", "v1"), PutOp(<<SegA, SegB>>, "k1", "v2")>>
       /\ Len(GroupQueries("PutOp")) = 1

-----------------------------------------------------------------------------
(* The path tokenizer, step by step *)

\* the length of the paths handed to the tokenizer
MaxPathLen == 4

\* the characters of the paths: a letter, the separator, the group characters
PathChars == {"a", ".", "[", "]", "{", "}"}
TokenizerPaths == UNION { [1..n -> PathChars] : n \in 0..MaxPathLen }

\* a caller hands a path to the tokenizer, which is before its first
\* character
TokenizeCall ==
    /\ input = <<>>
    /\ \E path \in TokenizerPaths :
          /\ input' = <<path>>
          /\ output' = <<[at |-> TokenizeStart, returned |-> FALSE, tokens |-> <<>>]>>
    /\ UNCHANGED <<dbVars, envVars, ledgerVars, embedding_config, batchVars,
                   setupVars, callerVars>>

\* one round of a loop of the tokenizer
TokenizeLoop ==
    /\ input # <<>>
    /\ ~output[1].returned
    /\ ~TokenizeAtEnd(input[1], output[1].at)
    /\ output' = <<[output[1] EXCEPT !.at = TokenizeStep(input[1], output[1].at)]>>
    /\ UNCHANGED <<dbVars, envVars, ledgerVars, embedding_config, batchVars,
                   setupVars, callerVars, input>>

\* the tokenizer returns its tokens
TokenizeReturn ==
    /\ input # <<>>
    /\ ~output[1].returned
    /\ TokenizeAtEnd(input[1], output[1].at)
    /\ output' = <<[output[1] EXCEPT !.returned = TRUE,
                                     !.tokens = TokenizeResult(output[1].at)]>>
    /\ UNCHANGED <<dbVars, envVars, ledgerVars, embedding_config, batchVars,
                   setupVars, callerVars, input>>

TokenizeNext == TokenizeCall \/ TokenizeLoop \/ TokenizeReturn

\* the tokenizer is sequential code: a loop round or a return that can be
\* taken is taken
TokenizeSpec ==
    /\ CodecInit
    /\ [][TokenizeNext]_vars
    /\ WF_vars(TokenizeLoop)
    /\ WF_vars(TokenizeReturn)

\* how many groups opened by `open` are open after the first n characters of
\* the token
RECURSIVE OpenGroups(_, _, _)
OpenGroups(token, open, n) ==
    IF n = 0 THEN 0
    ELSE OpenGroups(token, open, n - 1)
         + (IF token[n] = open THEN 1
            ELSE IF token[n] = Closer(open) THEN -1 ELSE 0)

\* the token is the end of the path
EndsPath(token, path) ==
    /\ Len(token) <= Len(path)
    /\ SubSeq(path, Len(path) - Len(token) + 1, Len(path)) = token

\* a well-formed token of the path: not empty; a field name without a
\* separator or an opening character; or a group that stays open up to its
\* last character, which closes it unless the path ended before
WellFormedToken(token, path) ==
    /\ token # <<>>
    /\ IF Head(token) \in {"[", "{"}
       THEN /\ \A n \in 1..(Len(token) - 1) : OpenGroups(token, Head(token), n) > 0
            /\ \/ OpenGroups(token, Head(token), Len(token)) = 0
               \/ EndsPath(token, path)
       ELSE \A n \in DOMAIN token : token[n] \notin {".", "[", "{"}

\* the tokenizer has returned
TokenizeReturned == output # <<>> /\ output[1].returned

\* C26: the tokenizer terminates for every path and returns only non-empty
\* tokens: a "." outside brackets and braces separates tokens and is never
\* a token or part of one, and a token opened by "[" or "{" extends to its
\* matching closing character, nested ones counted.
C26_TokenizerTerminates ==
    /\ [](TokenizeReturned =>
            \A k \in DOMAIN output[1].tokens :
                WellFormedToken(output[1].tokens[k], input[1]))
    /\ (input # <<>>) ~> TokenizeReturned

\* C26 happens: the path "[[]]" has been returned as the one token "[[]]",
\* its nested bracket counted
C26_Witness ==
    /\ TokenizeReturned
    /\ input[1] = <<"[", "[", "]", "]">>
    /\ output[1].tokens = <<<<"[", "[", "]", "]">>>>

-----------------------------------------------------------------------------
(* Callers sharing one store: setup() next to batch() *)

\* the number of migrations a setup() next to batches has left to apply
MaxPending == 1

\* the numbers of statements a setup() executes: the SELECT of the ledger,
\* then the migration and its ledger INSERT for each migration it applies
SetupStatements == { 1 + 2 * k : k \in 0..MaxPending }

\* thread t calls setup(), which executes n statements, and reaches
\* `with self._cursor()`
SetupCursorEnter(t, n) ==
    /\ cursor[t].at = "out"
    /\ cursor' = [cursor EXCEPT ![t] = [at |-> "setup entering", left |-> n]]
    /\ UNCHANGED <<lock, wire, lockFrame>>

\* _cursor(pipeline=False) hands out its cursor
SetupCursorAcquire(t) ==
    /\ cursor[t].at = "setup entering"
    /\ IF TakesLock(pipe, FALSE)
       THEN lock = "free" /\ lock' = t
       ELSE UNCHANGED lock
    /\ cursor' = [cursor EXCEPT ![t].at = "setup in"]
    /\ UNCHANGED <<wire, lockFrame>>

\* cur.execute of the next statement of t's setup() on the connection
SetupCursorExecute(t) ==
    /\ cursor[t].at = "setup in"
    /\ cursor[t].left > 0
    /\ wire' = Append(wire, t)
    /\ cursor' = [cursor EXCEPT ![t].left = @ - 1]
    /\ UNCHANGED <<lock, lockFrame>>

\* t leaves the with block of setup()
SetupCursorExit(t) ==
    /\ cursor[t].at = "setup in"
    /\ cursor' = [cursor EXCEPT ![t].at = "out", ![t].left = 0]
    /\ lock' = IF lock = t THEN "free" ELSE lock
    /\ wire' = Over(wire, t)
    /\ UNCHANGED lockFrame

SetupLockNext ==
    \E t \in Callers :
        \/ \E n \in 1..MaxOps : CursorEnter(t, n)
        \/ CursorAcquire(t)
        \/ CursorExecute(t)
        \/ CursorExit(t)
        \/ \E n \in SetupStatements : SetupCursorEnter(t, n)
        \/ SetupCursorAcquire(t)
        \/ SetupCursorExecute(t)
        \/ SetupCursorExit(t)

SetupLockSpec == LockInit /\ [][SetupLockNext]_vars

\* the setup() of thread s is between its first and its last statement
SetupUnderWay(s) ==
    /\ cursor[s].at = "setup in"
    /\ s \in Range(wire)
    /\ cursor[s].left > 0

\* C27: on a store whose connection is not in pipeline mode, setup() and
\* batch() exclude each other: no batch() is inside its cursor section,
\* holding the guard, while a setup() is between its first and its last
\* statement.
C27_SetupExcludesBatch ==
    ~pipe =>
        \A t, s \in Callers :
            ~(cursor[t].at = "in" /\ lock = t /\ SetupUnderWay(s))

-----------------------------------------------------------------------------
(* Properties of the vector rows *)

\* the vector rows the items of table st should have: one for each text
\* field that yields a fragment from the item's value
FragmentRows(st) ==
    UNION { { [prefix |-> s.prefix, key |-> s.key, field_name |-> f] :
                f \in { g \in Range(TextFields) :
                           ExtractedTexts(s.value, g) # <<>> } } : s \in st }

\* C28: after any sequence of batches on a store with an embedding config,
\* the vector rows of an item are exactly those of the text fields that
\* yield a fragment from the item's current value: an upsert whose value no
\* longer yields a fragment for a field leaves no vector row of that field.
C28_VectorRowsFollowValue ==
    (pc = "idle" /\ embedding_config # NoConfig) =>
        store_vectors = FragmentRows(store)

-----------------------------------------------------------------------------
(* Semantic searches over items embedded field by field *)

\* documents with the first, the second and both of the embedded fields
JoinValues == {"v1", "v2", "v12"}

JoinOps ==
    { PutOp(<<SegA>>, "k1", v) : v \in JoinValues \cup {None} }
    \cup { SearchOp(<<SegA>>, <<>>, q) : q \in {None, "q"} }

JoinBatches == UNION { [1..n -> JoinOps] : n \in 0..MaxOps }

JoinBegin ==
    /\ Idle
    /\ lock = "free"
    /\ \E os \in JoinBatches : Begin(os)

JoinNext ==
    \/ JoinBegin
    \/ BatchExit
    \/ BatchSearchOps
    \/ BatchPutOps
    \/ \E n \in 0..MaxOps : BatchFail(n)
    \/ EmbedFail

JoinSpec == VectorInit /\ [][JoinNext]_vars

\* C29: the list returned for a Search holds each stored item, identified by
\* (namespace, key), at most once, also for a semantic search over items
\* that have vector rows for more than one text field.
C29_EachItemOnce ==
    pc = "returned" =>
        \A i \in DOMAIN ops :
            ops[i].type = "SearchOp" =>
                \A x, y \in results[i].items :
                    (x.namespace = y.namespace /\ x.key = y.key) => x = y

-----------------------------------------------------------------------------
(* Properties of a batch that fails in its Search phase *)

\* C30: when batch() fails with the unsupported-operator error raised while
\* a Search filter is compiled, none of the Puts of the batch has been
\* applied: no statement of the Put group has been executed and the store
\* holds exactly the rows it held before the batch.
C30_NoPutBeforeUnsupported ==
    error = "Unsupported operator" =>
        /\ store = store0
        /\ \A i \in DOMAIN executed : executed[i].group # "PutOp"

\* C30 happens: a batch of a Put and a Search whose filter has the operator
\* $foo has failed with the unsupported-operator error, the store as before
C30_Witness ==
    /\ pc = "raised"
    /\ error = "Unsupported operator"
    /\ Len(ops) = 2
    /\ ops[1].type = "PutOp"
    /\ ops[2].type = "SearchOp"
    /\ ops[2].filter[1].op = "$foo"
    /\ store = store0

-----------------------------------------------------------------------------
(* Callers sharing one store: batches that return and batches that raise *)

\* the exceptions that leave the cursor section of a batch()
BatchErrors == {"Unsupported operator", "embedding", "backend"}

\* the holder of self.lock if an exception did not release it
KeptOnRaise(holder, t) == holder

\* the holder of self.lock once t has left `with self.lock, ...`: the with
\* statement releases the lock on a return and on an exception alike
Released(holder, t) == IF holder = t THEN "free" ELSE holder

\* t leaves the with block after the last statement of its batch
CursorReturn(t) ==
    /\ cursor[t].left = 0
    /\ CursorExit(t)

\* an exception leaves the with block of t's batch: a compile error or an
\* embedding failure before a statement, a backend failure at one
CursorRaise(t, err) ==
    /\ cursor[t].at = "in"
    /\ cursor' = [cursor EXCEPT ![t].at = "out", ![t].left = 0]
    /\ lock' = Released(lock, t)
    /\ wire' = Over(wire, t)
    /\ error' = err
    /\ UNCHANGED <<dbVars, envVars, ledgerVars, embedding_config, pc, ops,
                   results, executed, store0, tomb, tomb0, embed_calls,
                   setupVars, pipe, callVars>>

GuardNext ==
    \E t \in Callers :
        \/ \E n \in 1..MaxOps : CursorEnter(t, n)
        \/ CursorAcquire(t)
        \/ CursorExecute(t)
        \/ CursorReturn(t)
        \/ \E err \in BatchErrors : CursorRaise(t, err)

\* a batch inside its cursor section runs on: its next statement is
\* executed and it returns after the last; a batch blocked on the lock is
\* woken each time the lock is released and takes it at one of these times
GuardSpec ==
    /\ LockInit
    /\ [][GuardNext]_vars
    /\ \A t \in Callers :
          /\ WF_vars(CursorExecute(t))
          /\ WF_vars(CursorReturn(t))
          /\ SF_vars(CursorAcquire(t))

-----------------------------------------------------------------------------
(* setup() running beside batch(): the embedding config between the
   compilation of a group's statements and the group's use of the config *)

\* a document with one embedded field is put or deleted, a text is searched
RaceOps ==
    { PutOp(<<SegA>>, "k1", v) : v \in {"v1", None} }
    \cup { SearchOp(<<SegA>>, <<>>, "q") }

RaceBatches == UNION { [1..n -> RaceOps] : n \in 0..MaxOps }

\* PostgresStore(conn, embedding=...) on a database where the vector tables
\* exist and the last migration, the index on store_vectors, is yet to be
\* run: the backend fails it
RaceInit ==
    /\ store = {}
    /\ store_vectors = {}
    /\ ledger_table = TRUE
    /\ store_migrations = Versions \ {Len(MIGRATIONS) - 1}
    /\ schema = Versions \ {Len(MIGRATIONS) - 1}
    /\ vector_available = TRUE
    /\ rejects = {MigrationStatement(Len(MIGRATIONS) - 1)}
    /\ embedding_config = EmbeddingConfig("int", TextFields)
    /\ lock = "free"
    /\ pc = "idle"
    /\ ops = <<>>
    /\ results = <<>>
    /\ executed = <<>>
    /\ store0 = {}
    /\ tomb = {}
    /\ tomb0 = {}
    /\ embed_calls = <<>>
    /\ error = ""
    /\ spc = "idle"
    /\ version = -1
    /\ mv = 0
    /\ events = <<>>
    /\ skipped = {}
    /\ quiet = "none"
    /\ pipe = FALSE
    /\ cursor = <<>>
    /\ wire = <<>>
    /\ input = <<>>
    /\ output = <<>>

RaceBegin ==
    /\ Idle
    /\ lock = "free"
    /\ \E os \in RaceBatches : Begin(os)

\* _batch_search_ops, its first line:
\* queries, embedding_requests = self._prepare_batch_search_queries(search_ops)
\* output holds what the call returned, the locals of _batch_search_ops
RaceSearchPrepare ==
    /\ pc = "SearchOp"
    /\ output = <<>>
    /\ output' = <<_prepare_batch_search_queries(Grouped[pc], embedding_config)>>
    /\ UNCHANGED <<dbVars, envVars, ledgerVars, embedding_config, batchVars,
                   setupVars, callerVars, input>>

\* _batch_search_ops from `if embedding_requests and self.embedding_config:`
\* on: self.embedding_config is read again, the placeholders are filled if it
\* is set, the statements are executed; input holds the statements handed to
\* cur.execute
RaceSearchRun ==
    /\ pc = "SearchOp"
    /\ output # <<>>
    /\ ReadPhase(SearchPhase(output[1], embedding_config),
                 Scatter(results, Grouped[pc],
                         SearchItems(FilledQueries(output[1], embedding_config),
                                     Tables(store, store_vectors))))
    /\ input' = IF output[1].raises THEN <<>>
                ELSE FilledQueries(output[1], embedding_config)
    /\ output' = <<>>
    /\ UNCHANGED <<envVars, ledgerVars, embedding_config, store0, tomb0,
                   setupVars, callerVars>>

\* _batch_put_ops, its first line:
\* queries, embedding_request = self._prepare_batch_PUT_queries(put_ops)
RacePutPrepare ==
    /\ pc = "PutOp"
    /\ output = <<>>
    /\ output' = <<_prepare_batch_PUT_queries(Grouped[pc], embedding_config)>>
    /\ UNCHANGED <<dbVars, envVars, ledgerVars, embedding_config, batchVars,
                   setupVars, callerVars, input>>

\* _batch_put_ops from `if embedding_request:` on: self.embedding_config is
\* read again
RacePutRun ==
    /\ pc = "PutOp"
    /\ output # <<>>
    /\ PutPhaseRun(PutPhase(output[1], embedding_config))
    /\ output' = <<>>
    /\ UNCHANGED <<envVars, ledgerVars, embedding_config, store0, tomb0,
                   setupVars, callerVars, input>>

\* `return results`, or the exception reaching the caller: the call and its
\* locals are over
RaceExit ==
    /\ pc \in {"returned", "raised"}
    /\ pc' = "idle"
    /\ ops' = <<>>
    /\ results' = <<>>
    /\ executed' = <<>>
    /\ embed_calls' = <<>>
    /\ error' = ""
    /\ store0' = {}
    /\ tomb0' = {}
    /\ input' = <<>>
    /\ output' = <<>>
    /\ UNCHANGED <<dbVars, envVars, ledgerVars, embedding_config, lock, tomb,
                   setupVars, callerVars>>

\* batch() in one thread, setup() in another: setup() takes no lock
RaceNext ==
    \/ RaceBegin
    \/ RaceSearchPrepare
    \/ RaceSearchRun
    \/ RacePutPrepare
    \/ RacePutRun
    \/ RaceExit
    \/ SetupBegin
    \/ SetupStep
    \/ SetupExit

RaceSpec == RaceInit /\ [][RaceNext]_vars

\* the running group holds embedding work: an embedding request that its
\* compilation returned and that the group has not yet used
PendingEmbeddingWork ==
    /\ output # <<>>
    /\ \/ pc = "SearchOp" /\ output[1].embedding_requests # <<>>
       \/ pc = "PutOp" /\ output[1].embedding_request # <<>>

\* C32: the Put phase never raises "Embedding configuration is required", no
\* Search statement with a vector placeholder is executed with the placeholder
\* unfilled, and embedding work is pending only while the embedding config is
\* set, setup() running beside the batch included
C32_NoStaleEmbeddingWork ==
    /\ error # "Embedding configuration is required"
    /\ \A j \in DOMAIN input : input[j].vector => input[j].embedding # None
    /\ PendingEmbeddingWork => embedding_config # NoConfig

-----------------------------------------------------------------------------
(* The ledger after setup() calls *)

====
